---------------------------- MODULE Spec2Model ----------------------------
(***************************************************************************)
(* A model of the extraction-and-pairing engine of dd-ftm:                 *)
(*   dd_ftm/core/scripts.py  script classifier and dominant-script rule    *)
(*   dd_ftm/core/extract.py  name normalizer and entity stream filter      *)
(*   dd_ftm/core/pairs.py    pair generator and tiered capper              *)
(*                                                                         *)
(* Python strings whose content matters (name texts, entity ids, and every *)
(* string that is compared with <= or sorted) are sequences of code        *)
(* points.  Strings that are only compared for equality (categories,       *)
(* property keys, schema tags) are TLA+ strings.  Script labels and        *)
(* dataset ids are TLA+ strings with their code points given by            *)
(* Codepoints, so that sorting and tuple comparison follow Python's        *)
(* code-point order.                                                       *)
(***************************************************************************)
EXTENDS Integers, Sequences, FiniteSets, TLC

VARIABLES
    fn, args, ret,                  \* one call of a pure function: name, arguments, result
    entity, config,                 \* _generate_entity_pairs: its parameters
    by_category, budget, selected,  \* _generate_entity_pairs: its locals
    rng, pc,                        \* the entity-seeded generator; the position in the tier walk
    f, lineno, yielded, origin,     \* stream_entities: file, lines consumed, records yielded (and their lines)
    status, raised,                 \* stream_entities: the generator's state; the exception it let out
    xconfig,                        \* stream_entities: the ExtractionConfig
    _char_cache,                     \* scripts._char_cache, the process-wide memo
    proc, hashsalt, out,            \* independent runs: running process, its str-hash salt, outputs
    gconfig, raw_results, ipa_result,   \* _generate_one: its GenerationConfig, the gathered calls, the IPAResult
    threads,                        \* threads calling _classify_char: the frame of each
    input_entities, consumed, emitted,  \* generate_pairs: its input, the entities taken from it, the pairs yielded
    batch_names, chunk_size, chunk_start,  \* generate_batch_async: its parameters, the start of the current chunk
    tasks, semaphore,               \* generate_batch_async: the _generate_one coroutines by name, the permits left
    batch_results, finished, bpc    \* generate_batch_async: its results, the order coroutines returned in, its position

callVars   == <<fn, args, ret>>
pairVars   == <<entity, config, by_category, budget, selected, rng, pc>>
streamVars == <<f, lineno, yielded, origin, status, raised, xconfig>>
runVars    == <<proc, hashsalt, out>>
ipaVars    == <<gconfig, raw_results, ipa_result>>
threadVars == <<threads>>
seqVars    == <<input_entities, consumed, emitted>>
batchVars  == <<batch_names, chunk_size, chunk_start, tasks, semaphore, batch_results, finished, bpc>>
restVars   == <<threadVars, seqVars, batchVars>>
vars       == <<fn, args, ret, entity, config, by_category, budget, selected, rng, pc,
                f, lineno, yielded, origin, status, raised, xconfig, _char_cache, proc, hashsalt, out,
                gconfig, raw_results, ipa_result, threads, input_entities, consumed, emitted,
                batch_names, chunk_size, chunk_start, tasks, semaphore, batch_results, finished, bpc>>

---------------------------------------------------------------------------
(* Bounds of the model *)

\* longest names sequence of an entity handed to the pair generator
MaxNames == 4
\* most raw values in the properties handed to the name normalizer
MaxRaw == 2
\* most lines of an input file
MaxLines == 3
\* most lines of the input file of the repeated runs
MaxRunLines == 2
\* largest small per_entity_cap tried (next to -1, 0 and the default)
MaxCap == 2

---------------------------------------------------------------------------
(* Python values *)

\* Python's None, where it stands for a str
None == "None"

\* the elements of a sequence
Range(s) == {s[i] : i \in 1..Len(s)}

\* all sequences over S of length at most n
SeqsUpTo(S, n) == UNION {[1..k -> S] : k \in 0..n}

\* code points of the script labels and dataset ids used in the model
Codepoints(s) ==
    CASE s = "Arabic"          -> <<65, 114, 97, 98, 105, 99>>
      [] s = "CJK"             -> <<67, 74, 75>>
      [] s = "Cyrillic"        -> <<67, 121, 114, 105, 108, 108, 105, 99>>
      [] s = "Greek"           -> <<71, 114, 101, 101, 107>>
      [] s = "Latin"           -> <<76, 97, 116, 105, 110>>
      [] s = "Other(TIFINAGH)" -> <<79, 116, 104, 101, 114, 40, 84, 73, 70, 73, 78, 65, 71, 72, 41>>
      [] s = "Unknown"         -> <<85, 110, 107, 110, 111, 119, 110>>
      [] s = "eu_fsf"          -> <<101, 117, 95, 102, 115, 102>>
      [] s = "us_ofac_sdn"     -> <<117, 115, 95, 111, 102, 97, 99, 95, 115, 100, 110>>
      [] s = "zz_pep"          -> <<122, 122, 95, 112, 101, 112>>

\* Python's str < str on code-point sequences: lexicographic, a proper prefix is smaller
RECURSIVE SeqLess(_, _)
SeqLess(s, t) ==
    IF t = <<>> THEN FALSE
    ELSE IF s = <<>> THEN TRUE
    ELSE IF Head(s) # Head(t) THEN Head(s) < Head(t)
    ELSE SeqLess(Tail(s), Tail(t))

\* str < str on labels and dataset ids
StrLess(a, b) == SeqLess(Codepoints(a), Codepoints(b))

\* sorted(S)[0] for a non-empty set of strings
SortedFirst(S) == CHOOSE x \in S : \A y \in S \ {x} : StrLess(x, y)

\* sorted(S) as a sequence
RECURSIVE Sorted(_)
Sorted(S) ==
    IF S = {} THEN <<>>
    ELSE LET m == SortedFirst(S) IN <<m>> \o Sorted(S \ {m})

---------------------------------------------------------------------------
(* scripts.py: per-character classification *)

\* str.isalpha() on the characters of the model:
\* a b (Latin), U+0431 U+0432 (Cyrillic), U+0628 (Arabic), U+2D30 (Tifinagh), and the
\* Tangut ideograph U+17000, a letter (category Lo) for which unicodedata has no name
IsAlpha(ch) == ch \in {97, 98, 1073, 1074, 1576, 11568, 94208}

\* whitespace as str.strip() sees it
IsSpace(ch) == ch \in {9, 10, 32}

\* unicodedata.name(ch, "").split()[0], "" when the character has no name
UnicodeBlock(ch) ==
    CASE ch \in {97, 98}     -> "LATIN"
      [] ch \in {1073, 1074} -> "CYRILLIC"
      [] ch = 1576           -> "ARABIC"
      [] ch = 11568          -> "TIFINAGH"
      [] ch = 32             -> "SPACE"
      [] ch = 47             -> "SOLIDUS"
      [] ch = 49             -> "DIGIT"
      [] OTHER               -> ""

\* _SCRIPT_MAP.get(block)
SCRIPT_MAP(block) ==
    CASE block = "LATIN" -> "Latin"
      [] block = "CYRILLIC" -> "Cyrillic"
      [] block \in {"ARABIC", "ARABIC-INDIC"} -> "Arabic"
      [] block \in {"CJK", "KANGXI", "IDEOGRAPHIC", "FULLWIDTH", "HALFWIDTH"} -> "CJK"
      [] block = "HANGUL" -> "Hangul"
      [] block = "DEVANAGARI" -> "Devanagari"
      [] block = "HIRAGANA" -> "Hiragana"
      [] block \in {"KATAKANA", "KATAKANA-HIRAGANA"} -> "Katakana"
      [] block = "THAI" -> "Thai"
      [] block = "GEORGIAN" -> "Georgian"
      [] block = "ARMENIAN" -> "Armenian"
      [] block = "HEBREW" -> "Hebrew"
      [] block = "BENGALI" -> "Bengali"
      [] block = "GURMUKHI" -> "Gurmukhi"
      [] block = "GUJARATI" -> "Gujarati"
      [] block = "TAMIL" -> "Tamil"
      [] block = "TELUGU" -> "Telugu"
      [] block = "KANNADA" -> "Kannada"
      [] block = "MALAYALAM" -> "Malayalam"
      [] block = "MYANMAR" -> "Myanmar"
      [] block = "KHMER" -> "Khmer"
      [] block = "TIBETAN" -> "Tibetan"
      [] block = "ETHIOPIC" -> "Ethiopic"
      [] block = "GREEK" -> "Greek"
      [] OTHER -> None

\* f"Other({block})" for the unmapped blocks of the model
OtherLabel(block) == CASE block = "TIFINAGH" -> "Other(TIFINAGH)"

\* the body of _classify_char after the cache lookups: the label computed on a miss
ClassifyMiss(ch) ==
    IF IsAlpha(ch) /\ UnicodeBlock(ch) # ""
    THEN (IF SCRIPT_MAP(UnicodeBlock(ch)) = None
          THEN OtherLabel(UnicodeBlock(ch))
          ELSE SCRIPT_MAP(UnicodeBlock(ch)))
    ELSE None

\* a memo that is filled with the table lookup, before the Other(...) fallback is applied
_classify_char_caching_lookup(ch, cache) ==
    IF ch \in DOMAIN cache /\ cache[ch] # None THEN [label |-> cache[ch], cache |-> cache]
    ELSE IF ch \in DOMAIN cache THEN [label |-> None, cache |-> cache]
    ELSE LET looked == IF IsAlpha(ch) /\ UnicodeBlock(ch) # ""
                       THEN SCRIPT_MAP(UnicodeBlock(ch)) ELSE None
         IN  [label |-> ClassifyMiss(ch),
              cache |-> [c \in DOMAIN cache \cup {ch} |-> IF c = ch THEN looked ELSE cache[c]]]

\* _classify_char(ch) on the memo cache: the label returned and the memo afterwards
_classify_char(ch, cache) ==
    IF ch \in DOMAIN cache /\ cache[ch] # None THEN [label |-> cache[ch], cache |-> cache]
    ELSE IF ch \in DOMAIN cache THEN [label |-> None, cache |-> cache]
    ELSE LET result == ClassifyMiss(ch) IN
         [label |-> result,
          cache |-> [c \in DOMAIN cache \cup {ch} |-> IF c = ch THEN result ELSE cache[c]]]

\* detect_scripts(text) on the memo cache: the frozenset returned and the memo afterwards
RECURSIVE DetectFrom(_, _, _)
DetectFrom(text, scripts, cache) ==
    IF text = <<>> THEN [scripts |-> scripts, cache |-> cache]
    ELSE LET r == _classify_char(Head(text), cache) IN
         DetectFrom(Tail(text),
                    IF r.label # None THEN scripts \cup {r.label} ELSE scripts,
                    r.cache)

detect_scripts(text, cache) == DetectFrom(text, {}, cache)

\* the empty memo
EmptyCache == [c \in {} |-> None]

---------------------------------------------------------------------------
(* scripts.py: dominant_script *)

\* the script labels a NameRecord of the model may carry
Labels == {"Arabic", "CJK", "Cyrillic", "Greek", "Latin", "Other(TIFINAGH)", "Unknown"}

\* a collapse that sorts the whole set, Latin included
dominant_script_sorted_all(scripts) ==
    IF scripts = {} THEN "Unknown" ELSE SortedFirst(scripts)

\* dominant_script(scripts)
dominant_script(scripts) ==
    IF scripts = {} THEN "Unknown"
    ELSE IF Cardinality(scripts) = 1 THEN CHOOSE x \in scripts : TRUE
    ELSE LET non_latin == scripts \ {"Latin"} IN
         IF non_latin # {}
         THEN IF Cardinality(non_latin) = 1
              THEN CHOOSE x \in non_latin : TRUE
              ELSE SortedFirst(non_latin)
         ELSE "Latin"

---------------------------------------------------------------------------
(* pairs.py: classification, canonical order, pair ids *)

\* the tiers, in the priority order of the tier walk
Tiers == <<"cross_script", "latin_latin", "non_latin">>

\* str.encode("utf-8")
RECURSIVE Utf8(_)
Utf8(text) ==
    IF text = <<>> THEN <<>>
    ELSE LET c == Head(text) IN
         (IF c < 128 THEN <<c>>
          ELSE IF c < 2048 THEN <<192 + (c \div 64), 128 + (c % 64)>>
          ELSE IF c < 65536
          THEN <<224 + (c \div 4096), 128 + ((c \div 64) % 64), 128 + (c % 64)>>
          ELSE <<240 + (c \div 262144), 128 + ((c \div 4096) % 64),
                 128 + ((c \div 64) % 64), 128 + (c % 64)>>)
         \o Utf8(Tail(text))

\* hashlib.sha256(bytes).hexdigest()[:16], taken to be collision-free: the digest
\* prefix is represented by the bytes it was computed from
Sha256Hex16(bytes) == [sha256 |-> bytes]

\* a pair id computed from the two names alone
_make_pair_id_names_only(entity_id, name_a, name_b) ==
    Sha256Hex16(Utf8(name_a \o <<0>> \o name_b))

\* _make_pair_id(entity_id, name_a, name_b)
_make_pair_id(entity_id, name_a, name_b) ==
    Sha256Hex16(Utf8(entity_id \o <<0>> \o name_a \o <<0>> \o name_b))

\* _classify_pair(dom_a, dom_b)
_classify_pair(dom_a, dom_b) ==
    IF dom_a = dom_b
    THEN (IF dom_a = "Latin" THEN "latin_latin" ELSE "non_latin")
    ELSE "cross_script"

\* a comparison of the texts alone
KeyLEByText(dom_a, text_a, dom_b, text_b) == ~SeqLess(text_b, text_a)

\* (dom_a, text_a) <= (dom_b, text_b) on Python tuples of str
KeyLE(dom_a, text_a, dom_b, text_b) ==
    IF dom_a # dom_b THEN StrLess(dom_a, dom_b) ELSE ~SeqLess(text_b, text_a)

\* no reordering: the names stay in the order of the arguments
_canonical_order_as_given(nr_a, dom_a, nr_b, dom_b, category) == <<nr_a, dom_a, nr_b, dom_b>>

\* an ordering by (dominant_script, text) alone, without the Latin-first rule
_canonical_order_alphabetical(nr_a, dom_a, nr_b, dom_b, category) ==
    IF KeyLE(dom_a, nr_a.text, dom_b, nr_b.text)
    THEN <<nr_a, dom_a, nr_b, dom_b>>
    ELSE <<nr_b, dom_b, nr_a, dom_a>>

\* _canonical_order(nr_a, dom_a, nr_b, dom_b, category)
_canonical_order(nr_a, dom_a, nr_b, dom_b, category) ==
    IF category = "cross_script" /\ dom_a = "Latin" THEN <<nr_a, dom_a, nr_b, dom_b>>
    ELSE IF category = "cross_script" /\ dom_b = "Latin" THEN <<nr_b, dom_b, nr_a, dom_a>>
    ELSE IF KeyLE(dom_a, nr_a.text, dom_b, nr_b.text)
         THEN <<nr_a, dom_a, nr_b, dom_b>>
         ELSE <<nr_b, dom_b, nr_a, dom_a>>

\* the NamePair built in the loop body of _generate_entity_pairs for names nr_a, nr_b
MakePair(ent, nr_a, nr_b) ==
    LET dom_a    == dominant_script(nr_a.scripts)
        dom_b    == dominant_script(nr_b.scripts)
        category == _classify_pair(dom_a, dom_b)
        c        == _canonical_order(nr_a, dom_a, nr_b, dom_b, category)
    IN  [pair_id         |-> _make_pair_id(ent.entity_id, c[1].text, c[3].text),
         entity_id       |-> ent.entity_id,
         name_a          |-> c[1].text,
         script_a        |-> c[2],
         property_a      |-> c[1].source_property,
         name_b          |-> c[3].text,
         script_b        |-> c[4],
         property_b      |-> c[3].source_property,
         pair_category   |-> category,
         source_datasets |-> ent.datasets]

\* itertools.combinations(range(n), 2), in its order, as pairs of positions 1..n
RECURSIVE CombinationsFrom(_, _, _)
CombinationsFrom(i, j, n) ==
    IF i >= n THEN <<>>
    ELSE IF j > n THEN CombinationsFrom(i + 1, i + 2, n)
    ELSE <<(<<i, j>>)>> \o CombinationsFrom(i, j + 1, n)

\* the pairs of neighbours only, as zip(names, names[1:]) would give
CombinationsAdjacent(n) == [k \in 1..(IF n > 0 THEN n - 1 ELSE 0) |-> <<k, k + 1>>]

Combinations2(n) == CombinationsFrom(1, 2, n)

\* an enumeration loop without the include_categories test
RECURSIVE SelectPairsAnyCategory(_, _, _)
SelectPairsAnyCategory(s, tier, include) ==
    IF s = <<>> THEN <<>>
    ELSE (IF Head(s).pair_category = tier THEN <<Head(s)>> ELSE <<>>)
         \o SelectPairsAnyCategory(Tail(s), tier, include)

\* the pairs of s of category tier, in order, when the tier is included (lines 95-96, 113)
RECURSIVE SelectPairs(_, _, _)
SelectPairs(s, tier, include) ==
    IF s = <<>> THEN <<>>
    ELSE (IF Head(s).pair_category = tier /\ tier \in include THEN <<Head(s)>> ELSE <<>>)
         \o SelectPairs(Tail(s), tier, include)

\* by_category after the enumeration loop of _generate_entity_pairs
Classified(ent, cfg) ==
    LET idx == Combinations2(Len(ent.names))
        all == [k \in 1..Len(idx) |-> MakePair(ent, ent.names[idx[k][1]], ent.names[idx[k][2]])]
    IN  [tier \in Range(Tiers) |-> SelectPairs(all, tier, cfg.include_categories)]

---------------------------------------------------------------------------
(* pairs.py: the entity-seeded generator and the shuffle *)

\* int(hashlib.sha256(entity_id.encode("utf-8")).hexdigest()[:8], 16): SHA-256 is
\* represented by a fixed polynomial digest of the bytes, 8 bits wide
RECURSIVE Digest(_, _)
Digest(bytes, h) ==
    IF bytes = <<>> THEN h ELSE Digest(Tail(bytes), (h * 31 + Head(bytes)) % 256)

\* a seed taken from hash(entity_id), which Python salts per process
entity_hash_salted(entity_id) == (Digest(Utf8(entity_id), 7) + hashsalt) % 256

\* entity_hash of _generate_entity_pairs
entity_hash(entity_id) == Digest(Utf8(entity_id), 7)

\* a ^ b on naturals
RECURSIVE Xor(_, _)
Xor(a, b) ==
    IF a = 0 THEN b
    ELSE IF b = 0 THEN a
    ELSE ((a + b) % 2) + 2 * Xor(a \div 2, b \div 2)

\* random.Random(seed): the Mersenne Twister is represented by a linear congruential
\* generator; the state after seeding
RandomSeeded(seed) == seed % 1024

\* one draw of rng._randbelow(n): the value and the generator's next state
RandBelow(state, n) ==
    LET next == (state * 37 + 11) % 1024
    IN  [value |-> (next \div 8) % n, state |-> next]

\* rng.shuffle(x): for i in reversed(range(1, len(x))): j = randbelow(i + 1); swap x[i], x[j]
RECURSIVE ShuffleFrom(_, _, _)
ShuffleFrom(x, i, state) ==
    IF i < 2 THEN [list |-> x, state |-> state]
    ELSE LET r == RandBelow(state, i)
             j == r.value + 1
         IN  ShuffleFrom([x EXCEPT ![i] = x[j], ![j] = x[i]], i - 1, r.state)

Shuffle(x, state) == ShuffleFrom(x, Len(x), state)

---------------------------------------------------------------------------
(* pairs.py: _generate_entity_pairs *)

\* the locals of _generate_entity_pairs when the tier walk starts
BeforeWalk(ent, cfg) ==
    [by_category |-> Classified(ent, cfg),
     budget      |-> cfg.per_entity_cap,
     selected    |-> <<>>,
     rng         |-> RandomSeeded(Xor(cfg.rng_seed, entity_hash(ent.entity_id)))]

\* a tier walk that forgets to charge a fully kept tier to the budget
WalkTierUncharged(st, tier) ==
    LET candidates == st.by_category[tier] IN
    IF candidates = <<>> \/ st.budget <= 0 THEN st
    ELSE IF Len(candidates) <= st.budget
    THEN [st EXCEPT !.selected = @ \o candidates]
    ELSE LET sh == Shuffle(candidates, st.rng) IN
         [by_category |-> [st.by_category EXCEPT ![tier] = sh.list],
          budget      |-> 0,
          selected    |-> st.selected \o SubSeq(sh.list, 1, st.budget),
          rng         |-> sh.state]

\* a tier walk that walks on after a truncated tier with the budget it had
WalkTierBudgetKept(st, tier) ==
    LET candidates == st.by_category[tier] IN
    IF candidates = <<>> \/ st.budget <= 0 THEN st
    ELSE IF Len(candidates) <= st.budget
    THEN [st EXCEPT !.selected = @ \o candidates, !.budget = @ - Len(candidates)]
    ELSE LET sh == Shuffle(candidates, st.rng) IN
         [by_category |-> [st.by_category EXCEPT ![tier] = sh.list],
          budget      |-> st.budget,
          selected    |-> st.selected \o SubSeq(sh.list, 1, st.budget),
          rng         |-> sh.state]

\* a tier walk that charges a truncated tier in full to the budget
WalkTierOverdrawn(st, tier) ==
    LET candidates == st.by_category[tier] IN
    IF candidates = <<>> \/ st.budget <= 0 THEN st
    ELSE IF Len(candidates) <= st.budget
    THEN [st EXCEPT !.selected = @ \o candidates, !.budget = @ - Len(candidates)]
    ELSE LET sh == Shuffle(candidates, st.rng) IN
         [by_category |-> [st.by_category EXCEPT ![tier] = sh.list],
          budget      |-> st.budget - Len(candidates),
          selected    |-> st.selected \o SubSeq(sh.list, 1, st.budget),
          rng         |-> sh.state]

\* a tier walk that takes a tier whole or not at all
WalkTierAllOrNothing(st, tier) ==
    LET candidates == st.by_category[tier] IN
    IF candidates = <<>> \/ st.budget <= 0 THEN st
    ELSE IF Len(candidates) <= st.budget
    THEN [st EXCEPT !.selected = @ \o candidates, !.budget = @ - Len(candidates)]
    ELSE st

\* one iteration of the tier walk
WalkTier(st, tier) ==
    LET candidates == st.by_category[tier] IN
    IF candidates = <<>> \/ st.budget <= 0 THEN st
    ELSE IF Len(candidates) <= st.budget
    THEN [st EXCEPT !.selected = @ \o candidates, !.budget = @ - Len(candidates)]
    ELSE LET sh == Shuffle(candidates, st.rng) IN
         [by_category |-> [st.by_category EXCEPT ![tier] = sh.list],
          budget      |-> 0,
          selected    |-> st.selected \o SubSeq(sh.list, 1, st.budget),
          rng         |-> sh.state]

\* _generate_entity_pairs(entity, config)
_generate_entity_pairs(ent, cfg) ==
    IF Len(ent.names) < 2 THEN <<>>
    ELSE WalkTier(WalkTier(WalkTier(BeforeWalk(ent, cfg), Tiers[1]), Tiers[2]), Tiers[3]).selected

\* generate_pairs(entities, config)
RECURSIVE generate_pairs(_, _)
generate_pairs(entities, cfg) ==
    IF entities = <<>> THEN <<>>
    ELSE _generate_entity_pairs(Head(entities), cfg) \o generate_pairs(Tail(entities), cfg)

---------------------------------------------------------------------------
(* datasets.py *)

DEFAULT_SANCTIONS_DATASETS ==
    {"adb_sanctions", "ae_local_terrorists", "afdb_sanctions", "at_nbter_sanctions",
     "au_dfat_sanctions", "az_fiu_sanctions", "be_fod_sanctions", "ca_dfatd_sema_sanctions",
     "ch_seco_sanctions", "cn_sanctions", "cz_national_sanctions", "cz_terrorists",
     "ee_international_sanctions", "eg_terrorists", "eu_cor_members", "eu_fsf",
     "eu_journal_sanctions", "eu_sanctions_map", "ext_us_ofac_press_releases",
     "gb_fcdo_sanctions", "gb_hmt_sanctions", "iadb_sanctions", "il_mod_terrorists",
     "il_wmd_sanctions", "ir_sanctions", "jo_sanctions", "jp_mof_sanctions",
     "kg_fiu_national", "kz_afmrk_sanctions", "lt_fiu_freezes", "lv_fiu_sanctions",
     "mc_fund_freezes", "md_terror_sanctions", "my_moha_sanctions", "ng_nigsac_sanctions",
     "nl_terrorism_list", "np_mha_sanctions", "nz_russia_sanctions", "ph_amlc_sanctions",
     "pl_finanse_sanctions", "pl_mswia_sanctions", "qa_nctc_sanctions",
     "ro_onpcsb_sanctions", "ru_mfa_sanctions", "sg_terrorists", "th_designated_person",
     "ua_nsdc_sanctions", "ua_war_sanctions", "un_sc_sanctions", "us_bis_denied",
     "us_ofac_cons", "us_ofac_enforcement_actions", "us_ofac_sdn", "us_trade_csl",
     "za_fic_sanctions"}

---------------------------------------------------------------------------
(* extract.py: ExtractionConfig and _clean_names *)

\* the separator " / "
SpaceSlashSpace == <<32, 47, 32>>

\* ExtractionConfig(): the defaults; an Optional frozenset is the empty set for None
\* and a one-element set holding the frozenset otherwise
DefaultExtractionConfig ==
    [schema_filter      |-> "Person",
     name_properties    |-> <<"name", "alias", "previousName", "weakAlias">>,
     sanctions_datasets |-> {},
     split_separator    |-> SpaceSlashSpace,
     min_name_length    |-> 2]

\* ExtractionConfig.effective_datasets
effective_datasets(cfg) ==
    IF cfg.sanctions_datasets # {}
    THEN CHOOSE S \in cfg.sanctions_datasets : TRUE
    ELSE DEFAULT_SANCTIONS_DATASETS

\* dict.get(key, default)
Get(dict, key, default) == IF key \in DOMAIN dict THEN dict[key] ELSE default

\* whether s starts with prefix
StartsWith(s, prefix) == Len(prefix) <= Len(s) /\ SubSeq(s, 1, Len(prefix)) = prefix

\* str.split(sep) for a non-empty sep: cur is the part being read
RECURSIVE SplitFrom(_, _, _)
SplitFrom(s, sep, cur) ==
    IF s = <<>> THEN <<cur>>
    ELSE IF StartsWith(s, sep)
    THEN <<cur>> \o SplitFrom(SubSeq(s, Len(sep) + 1, Len(s)), sep, <<>>)
    ELSE SplitFrom(Tail(s), sep, Append(cur, Head(s)))

\* raw_value.split(sep) if sep else [raw_value]
Split(raw_value, sep) == IF sep # <<>> THEN SplitFrom(raw_value, sep, <<>>) ELSE <<raw_value>>

\* str.lstrip() and str.rstrip()
RECURSIVE LStrip(_)
LStrip(s) == IF s # <<>> /\ IsSpace(Head(s)) THEN LStrip(Tail(s)) ELSE s

RECURSIVE RStrip(_)
RStrip(s) == IF s # <<>> /\ IsSpace(s[Len(s)]) THEN RStrip(SubSeq(s, 1, Len(s) - 1)) ELSE s

\* str.strip()
Strip(s) == RStrip(LStrip(s))

\* any(ch.isalpha() for ch in text)
AnyAlpha(text) == \E i \in 1..Len(text) : IsAlpha(text[i])

\* the concatenation of a sequence of sequences
RECURSIVE Flatten(_)
Flatten(ss) == IF ss = <<>> THEN <<>> ELSE Head(ss) \o Flatten(Tail(ss))

\* a scan that walks the configured name properties from the last to the first
ScanOrderReversedKeys(props, cfg) ==
    LET n == Len(cfg.name_properties) IN
    Flatten([k \in 1..n |->
        LET prop_key == cfg.name_properties[n + 1 - k]
            values   == Get(props, prop_key, <<>>)
        IN  Flatten([v \in 1..Len(values) |->
                LET parts == Split(values[v], cfg.split_separator)
                IN  [q \in 1..Len(parts) |-> [prop |-> prop_key, text |-> Strip(parts[q])]]])])

\* the three nested loops of _clean_names: every stripped part with its property, in scan order
ScanOrder(props, cfg) ==
    Flatten([k \in 1..Len(cfg.name_properties) |->
        LET prop_key == cfg.name_properties[k]
            values   == Get(props, prop_key, <<>>)
        IN  Flatten([v \in 1..Len(values) |->
                LET parts == Split(values[v], cfg.split_separator)
                IN  [q \in 1..Len(parts) |-> [prop |-> prop_key, text |-> Strip(parts[q])]]])])

\* the loop body of _clean_names keeping one seen-set per property
RECURSIVE CleanFromSeenPerProperty(_, _, _, _, _)
CleanFromSeenPerProperty(scan, cfg, seen_texts, records, cache) ==
    IF scan = <<>> THEN [records |-> records, cache |-> cache]
    ELSE LET text == Head(scan).text
             key  == <<Head(scan).prop, text>>
         IN  IF Len(text) < cfg.min_name_length \/ ~AnyAlpha(text) \/ key \in seen_texts
             THEN CleanFromSeenPerProperty(Tail(scan), cfg, seen_texts, records, cache)
             ELSE LET d == detect_scripts(text, cache) IN
                  CleanFromSeenPerProperty(Tail(scan), cfg, seen_texts \cup {key},
                      Append(records, [text |-> text, scripts |-> d.scripts,
                                       source_property |-> Head(scan).prop]),
                      d.cache)

\* the loop body of _clean_names over the scan: filter, dedup, tag
RECURSIVE CleanFrom(_, _, _, _, _)
CleanFrom(scan, cfg, seen_texts, records, cache) ==
    IF scan = <<>> THEN [records |-> records, cache |-> cache]
    ELSE LET text == Head(scan).text IN
         IF Len(text) < cfg.min_name_length \/ ~AnyAlpha(text) \/ text \in seen_texts
         THEN CleanFrom(Tail(scan), cfg, seen_texts, records, cache)
         ELSE LET d == detect_scripts(text, cache) IN
              CleanFrom(Tail(scan), cfg, seen_texts \cup {text},
                        Append(records, [text |-> text, scripts |-> d.scripts,
                                         source_property |-> Head(scan).prop]),
                        d.cache)

\* _clean_names(props, config) on the memo cache: the tuple returned and the memo afterwards
_clean_names(props, cfg, cache) == CleanFrom(ScanOrder(props, cfg), cfg, {}, <<>>, cache)

---------------------------------------------------------------------------
(* extract.py: stream_entities *)

\* entity.get("schema") != config.schema_filter, negated
SchemaMatches(ent, cfg) == Get(ent, "schema", None) = cfg.schema_filter

\* a filter that asks only for some dataset membership
DatasetOverlapAny(entity_ds, target_datasets) == entity_ds # {}

\* entity_ds & target_datasets is non-empty
DatasetOverlap(entity_ds, target_datasets) == entity_ds \cap target_datasets # {}

\* an EntityRecord carrying all of the record's datasets, in file order
MakeEntityRecordAllDatasets(ent, target_datasets, names) ==
    [entity_id |-> ent.id, datasets |-> Get(ent, "datasets", <<>>), names |-> names]

\* the EntityRecord yielded for a record whose names survived
MakeEntityRecord(ent, target_datasets, names) ==
    [entity_id |-> ent.id,
     datasets  |-> Sorted(Range(Get(ent, "datasets", <<>>)) \cap target_datasets),
     names     |-> names]

\* the value of a pull that yields nothing
NoRecord == [entity_id |-> <<>>, datasets |-> <<>>, names |-> <<>>]

\* a properties map without entries
NoProperties == [k \in {} |-> <<>>]

\* a stream that skips the lines json.loads rejects
RECURSIVE PullFromSkippingInvalid(_, _, _, _)
PullFromSkippingInvalid(file, n, cfg, cache) ==
    IF n >= Len(file)
    THEN [outcome |-> "StopIteration", lineno |-> Len(file), record |-> NoRecord, cache |-> cache]
    ELSE LET line == file[n + 1] IN
         IF ~line.valid
         THEN PullFromSkippingInvalid(file, n + 1, cfg, cache)
         ELSE LET ent == line.obj IN
              IF ~SchemaMatches(ent, cfg) THEN PullFromSkippingInvalid(file, n + 1, cfg, cache)
              ELSE IF ~DatasetOverlap(Range(Get(ent, "datasets", <<>>)), effective_datasets(cfg))
              THEN PullFromSkippingInvalid(file, n + 1, cfg, cache)
              ELSE LET names == _clean_names(Get(ent, "properties", NoProperties), cfg, cache) IN
                   IF names.records = <<>> THEN PullFromSkippingInvalid(file, n + 1, cfg, names.cache)
                   ELSE IF "id" \notin DOMAIN ent
                   THEN [outcome |-> "KeyError", lineno |-> n + 1, record |-> NoRecord,
                         cache |-> names.cache]
                   ELSE [outcome |-> "yield", lineno |-> n + 1,
                         record |-> MakeEntityRecord(ent, effective_datasets(cfg), names.records),
                         cache |-> names.cache]

\* the generator body of stream_entities resumed with n lines consumed: it runs to its next
\* yield, to an exception, or to the end of the file
RECURSIVE PullFrom(_, _, _, _)
PullFrom(file, n, cfg, cache) ==
    IF n >= Len(file)
    THEN [outcome |-> "StopIteration", lineno |-> Len(file), record |-> NoRecord, cache |-> cache]
    ELSE LET line == file[n + 1] IN
         IF ~line.valid
         THEN [outcome |-> "JSONDecodeError", lineno |-> n + 1, record |-> NoRecord, cache |-> cache]
         ELSE LET ent == line.obj IN
              IF ~SchemaMatches(ent, cfg) THEN PullFrom(file, n + 1, cfg, cache)
              ELSE IF ~DatasetOverlap(Range(Get(ent, "datasets", <<>>)), effective_datasets(cfg))
              THEN PullFrom(file, n + 1, cfg, cache)
              ELSE LET names == _clean_names(Get(ent, "properties", NoProperties), cfg, cache) IN
                   IF names.records = <<>> THEN PullFrom(file, n + 1, cfg, names.cache)
                   ELSE IF "id" \notin DOMAIN ent
                   THEN [outcome |-> "KeyError", lineno |-> n + 1, record |-> NoRecord,
                         cache |-> names.cache]
                   ELSE [outcome |-> "yield", lineno |-> n + 1,
                         record |-> MakeEntityRecord(ent, effective_datasets(cfg), names.records),
                         cache |-> names.cache]

---------------------------------------------------------------------------
(* Inputs of the pair generator *)

\* NameRecord(text, scripts, source_property) as the normalizer builds it
NameRecord(text, prop) ==
    [text |-> text, scripts |-> detect_scripts(text, EmptyCache).scripts, source_property |-> prop]

\* the names entities are built from: two Latin names, a Cyrillic one, one mixing
\* Latin and Cyrillic letters, an Arabic one
NamePool ==
    {NameRecord(<<97, 98>>, "name"),
     NameRecord(<<98, 97>>, "alias"),
     NameRecord(<<1073, 1074>>, "alias"),
     NameRecord(<<97, 1073>>, "name"),
     NameRecord(<<1576, 1576>>, "weakAlias")}

\* the entity id "e1"
E1 == <<101, 49>>
\* the entity id "e2"
E2 == <<101, 50>>

\* PairConfig.per_entity_cap's default
DefaultCap == 100
\* PairConfig.rng_seed's default
DefaultSeed == 42

\* EntityRecords with up to MaxNames names
Entities ==
    {[entity_id |-> E1, datasets |-> <<"us_ofac_sdn">>, names |-> ns] :
        ns \in SeqsUpTo(NamePool, MaxNames)}

\* the values of per_entity_cap tried
Caps == {-1, 0, DefaultCap} \cup (1..MaxCap)

\* the values of include_categories tried
IncludeSets ==
    {Range(Tiers), {"cross_script"}, {"latin_latin", "non_latin"}, {}}

\* PairConfigs
Configs ==
    [per_entity_cap : Caps, rng_seed : {DefaultSeed, 7}, include_categories : IncludeSets]

---------------------------------------------------------------------------
(* Idle values of the variables a specification does not use *)

IdleCall   == fn = "" /\ args = <<>> /\ ret = <<>>
IdlePairs  == /\ entity = [entity_id |-> <<>>, datasets |-> <<>>, names |-> <<>>]
              /\ config = [per_entity_cap |-> 0, rng_seed |-> 0, include_categories |-> {}]
              /\ by_category = [tier \in Range(Tiers) |-> <<>>]
              /\ budget = 0 /\ selected = <<>> /\ rng = 0 /\ pc = "idle"
IdleStream == /\ f = <<>> /\ lineno = 0 /\ yielded = <<>> /\ origin = <<>>
              /\ status = "idle" /\ raised = "" /\ xconfig = <<>>
IdleCache  == _char_cache = EmptyCache
IdleRuns   == proc = 0 /\ hashsalt = 0 /\ out = <<>>
IdleIPA    == gconfig = <<>> /\ raw_results = <<>> /\ ipa_result = <<>>
IdleThreads == threads = <<>>
IdleSeq    == input_entities = <<>> /\ consumed = 0 /\ emitted = <<>>
IdleBatch  == /\ batch_names = <<>> /\ chunk_size = 0 /\ chunk_start = 0 /\ tasks = <<>>
              /\ semaphore = 0 /\ batch_results = <<>> /\ finished = <<>> /\ bpc = "idle"
IdleRest   == IdleThreads /\ IdleSeq /\ IdleBatch

---------------------------------------------------------------------------
(* Spec: one call of _generate_entity_pairs, stepping through its tier walk *)

Init ==
    /\ entity \in Entities
    /\ config \in Configs
    /\ by_category = [tier \in Range(Tiers) |-> <<>>]
    /\ budget = 0 /\ selected = <<>> /\ rng = 0
    /\ pc = "call"
    /\ IdleCall /\ IdleStream /\ IdleCache /\ IdleRuns /\ IdleIPA /\ IdleRest

\* the tier after tier in the walk, "return" after the last
NextTier(tier) ==
    IF tier = Tiers[1] THEN Tiers[2] ELSE IF tier = Tiers[2] THEN Tiers[3] ELSE "return"

\* lines 77-79: fewer than two names, return []
ReturnEmpty ==
    /\ pc = "call"
    /\ Len(entity.names) < 2
    /\ selected' = <<>>
    /\ pc' = "done"
    /\ UNCHANGED <<entity, config, by_category, budget, rng>>
    /\ UNCHANGED <<callVars, streamVars, _char_cache, runVars, ipaVars, restVars>>

\* an enumeration that seeds the generator for the first entity only and lets the later
\* entities share it
EnumerateSharedRng ==
    /\ pc = "call"
    /\ Len(entity.names) >= 2
    /\ LET st == BeforeWalk(entity, config) IN
        /\ by_category' = st.by_category
        /\ budget' = st.budget
        /\ selected' = st.selected
        /\ rng' = IF consumed <= 1 THEN st.rng ELSE rng
    /\ pc' = Tiers[1]
    /\ UNCHANGED <<entity, config>>
    /\ UNCHANGED <<callVars, streamVars, _char_cache, runVars, ipaVars, restVars>>

\* lines 81-122: enumerate, classify and canonicalize the pairs; set up budget and rng
Enumerate ==
    /\ pc = "call"
    /\ Len(entity.names) >= 2
    /\ LET st == BeforeWalk(entity, config) IN
        /\ by_category' = st.by_category
        /\ budget' = st.budget
        /\ selected' = st.selected
        /\ rng' = st.rng
    /\ pc' = Tiers[1]
    /\ UNCHANGED <<entity, config>>
    /\ UNCHANGED <<callVars, streamVars, _char_cache, runVars, ipaVars, restVars>>

\* lines 124-134: one iteration of the tier walk
Walk ==
    /\ pc \in Range(Tiers)
    /\ LET st == WalkTier([by_category |-> by_category, budget |-> budget,
                           selected |-> selected, rng |-> rng], pc) IN
        /\ by_category' = st.by_category
        /\ budget' = st.budget
        /\ selected' = st.selected
        /\ rng' = st.rng
    /\ pc' = NextTier(pc)
    /\ UNCHANGED <<entity, config>>
    /\ UNCHANGED <<callVars, streamVars, _char_cache, runVars, ipaVars, restVars>>

\* line 136: return selected
Return ==
    /\ pc = "return"
    /\ pc' = "done"
    /\ UNCHANGED <<entity, config, by_category, budget, selected, rng>>
    /\ UNCHANGED <<callVars, streamVars, _char_cache, runVars, ipaVars, restVars>>

Next == ReturnEmpty \/ Enumerate \/ Walk \/ Return

Spec == Init /\ [][Next]_vars

---------------------------------------------------------------------------
(* Properties of the pair generator, checked under Spec *)

Min(a, b) == IF a <= b THEN a ELSE b
Max(a, b) == IF a >= b THEN a ELSE b

\* the positions i < j of the entity's names: its unordered name pairs
NamePositions == {ij \in (1..Len(entity.names)) \X (1..Len(entity.names)) : ij[1] < ij[2]}

\* the category of the pair of names at positions ij
CategoryAt(ij) ==
    _classify_pair(dominant_script(entity.names[ij[1]].scripts),
                   dominant_script(entity.names[ij[2]].scripts))

\* T: the number of unordered name pairs whose category is included
TotalClassified ==
    Cardinality({ij \in NamePositions : CategoryAt(ij) \in config.include_categories})

\* the number of selected pairs of a tier
Kept(tier) == Cardinality({k \in 1..Len(selected) : selected[k].pair_category = tier})

\* C1 as stated: the number of pairs emitted for an entity is min(per_entity_cap, T),
\* for every PairConfig
C1_CountIsMinCapTotal ==
    pc = "done" => Len(selected) = Min(config.per_entity_cap, TotalClassified)

\* C1 amended: the number of pairs emitted for an entity is min(max(per_entity_cap, 0), T);
\* a negative cap emits nothing
C1_CountIsMinClampedCapTotal ==
    pc = "done" => Len(selected) = Min(Max(config.per_entity_cap, 0), TotalClassified)

\* a call that returned with the cap cutting into the classified pairs
C1_Witness ==
    /\ pc = "done"
    /\ config.per_entity_cap > 0
    /\ TotalClassified > config.per_entity_cap
    /\ Len(selected) = config.per_entity_cap

\* C2: when capping drops a pair of some tier, no pair of a lower-priority tier is emitted
C2_NoLowerTierKeptWhenDropped ==
    pc = "done" =>
        \A i \in 1..3 : \A j \in 1..3 :
            (i < j /\ Kept(Tiers[i]) < Len(by_category[Tiers[i]])) => Kept(Tiers[j]) = 0

\* a call that returned after truncating the cross_script tier, with pairs in both lower tiers
C2_Witness ==
    /\ pc = "done"
    /\ Kept("cross_script") > 0
    /\ Kept("cross_script") < Len(by_category["cross_script"])
    /\ by_category["latin_latin"] # <<>>
    /\ by_category["non_latin"] # <<>>

\* the two names a pair was built from, each with its property
Sides(p) == {<<p.name_a, p.property_a>>, <<p.name_b, p.property_b>>}

\* C5: with all categories included and a cap of at least n(n-1)/2, an entity with n names
\* yields n(n-1)/2 pairs, one per unordered pair of its names; fewer than 2 names yield none
C5_AllPairsWhenUncapped ==
    LET n == Len(entity.names) IN
    (/\ pc = "done"
     /\ config.include_categories = Range(Tiers)
     /\ 2 * config.per_entity_cap >= n * (n - 1))
    => /\ 2 * Len(selected) = n * (n - 1)
       /\ n < 2 => selected = <<>>
       /\ \A ij \in NamePositions : \E k \in 1..Len(selected) :
             Sides(selected[k]) =
                {<<entity.names[ij[1]].text, entity.names[ij[1]].source_property>>,
                 <<entity.names[ij[2]].text, entity.names[ij[2]].source_property>>}

\* a call that returned all six pairs of four names with pairwise distinct texts
C5_Witness ==
    /\ pc = "done"
    /\ Len(entity.names) = 4
    /\ Cardinality({entity.names[i].text : i \in 1..4}) = 4
    /\ config.include_categories = Range(Tiers)
    /\ config.per_entity_cap >= 6
    /\ Len(selected) = 6

\* the dominant script of the entity's NameRecord with the given text and property
IsDominantOf(script, text, prop) ==
    \E i \in 1..Len(entity.names) :
        /\ entity.names[i].text = text
        /\ entity.names[i].source_property = prop
        /\ script = dominant_script(entity.names[i].scripts)

\* C14: every emitted pair carries the dominant scripts of its two names; its category is
\* latin_latin iff both are "Latin", non_latin iff they are equal and not "Latin",
\* cross_script iff they differ; its category is included; and the excluded categories hold
\* no pair for the walk to charge: the budget spent is the number of emitted pairs
C14_CategoryMatchesScripts ==
    pc = "done" =>
        /\ \A k \in 1..Len(selected) :
            LET p == selected[k] IN
            /\ IsDominantOf(p.script_a, p.name_a, p.property_a)
            /\ IsDominantOf(p.script_b, p.name_b, p.property_b)
            /\ p.pair_category = "latin_latin" <=> (p.script_a = "Latin" /\ p.script_b = "Latin")
            /\ p.pair_category = "non_latin" <=> (p.script_a = p.script_b /\ p.script_a # "Latin")
            /\ p.pair_category = "cross_script" <=> p.script_a # p.script_b
            /\ p.pair_category \in config.include_categories
        /\ \A tier \in Range(Tiers) \ config.include_categories : by_category[tier] = <<>>
        /\ (Len(entity.names) >= 2 /\ config.per_entity_cap >= 0)
              => budget + Len(selected) = config.per_entity_cap
        /\ _classify_pair("Unknown", "Unknown") = "non_latin"

\* a call returned every pair of the included categories within the cap, while the entity
\* has more name pairs than the cap, the others of an excluded category
C14_Witness ==
    /\ pc = "done"
    /\ config.include_categories = {"latin_latin", "non_latin"}
    /\ Kept("latin_latin") > 0 /\ Kept("non_latin") > 0
    /\ Len(selected) = TotalClassified
    /\ Len(selected) = config.per_entity_cap
    /\ Cardinality(NamePositions) > config.per_entity_cap

\* (script_a, name_a) <= (script_b, name_b) in ascending tuple order
TupleLE(p) ==
    \/ StrLess(p.script_a, p.script_b)
    \/ p.script_a = p.script_b /\ (p.name_a = p.name_b \/ SeqLess(p.name_a, p.name_b))

\* C15: in every emitted pair, if the category is cross_script and one side's dominant
\* script is "Latin" then script_a is "Latin"; in every other emitted pair
\* (script_a, name_a) <= (script_b, name_b)
C15_LatinFirstElseAscending ==
    \A k \in 1..Len(selected) :
        LET p == selected[k] IN
        IF p.pair_category = "cross_script" /\ "Latin" \in {p.script_a, p.script_b}
        THEN p.script_a = "Latin"
        ELSE TupleLE(p)

\* a call returned a Latin-first pair against tuple order, a cross_script pair without a
\* Latin side, and a pair whose names the entity lists in descending order
C15_Witness ==
    /\ pc = "done"
    /\ \E k \in 1..Len(selected) :
          selected[k].script_a = "Latin" /\ selected[k].script_b = "Cyrillic"
    /\ \E k \in 1..Len(selected) :
          selected[k].script_a = "Arabic" /\ selected[k].script_b = "Cyrillic"
    /\ \E k \in 1..Len(selected) : \E i, j \in 1..Len(entity.names) :
          /\ i < j /\ selected[k].pair_category = "latin_latin"
          /\ selected[k].name_a = entity.names[j].text /\ selected[k].name_b = entity.names[i].text
          /\ selected[k].name_a # selected[k].name_b

\* C16: the pair_id of every emitted pair is the truncated hash of entity_id, NUL, name_a,
\* NUL, name_b as emitted, so two emitted pairs with the same triple have the same pair_id
C16_PairIdIsHashOfTriple ==
    /\ \A k \in 1..Len(selected) :
          selected[k].pair_id =
             Sha256Hex16(Utf8(selected[k].entity_id \o <<0>> \o selected[k].name_a
                                 \o <<0>> \o selected[k].name_b))
    /\ \A k, m \in 1..Len(selected) :
          (/\ selected[k].entity_id = selected[m].entity_id
           /\ selected[k].name_a = selected[m].name_a
           /\ selected[k].name_b = selected[m].name_b)
          => selected[k].pair_id = selected[m].pair_id

\* a call returned two pairs with the same triple, built from different positions of the
\* entity's names, and a pair with another triple
C16_Witness ==
    /\ pc = "done"
    /\ \E k, m \in 1..Len(selected) :
          /\ k < m
          /\ selected[k].name_a = selected[m].name_a /\ selected[k].name_b = selected[m].name_b
          /\ selected[k].name_a # selected[k].name_b
          /\ selected[k].pair_id = selected[m].pair_id
    /\ \E k, m \in 1..Len(selected) : selected[k].pair_id # selected[m].pair_id

\* C30: from the start of the tier walk of an entity to its return, with per_entity_cap >= 0
\* the remaining budget is never negative and budget + number of selected pairs =
\* per_entity_cap; with per_entity_cap <= 0 no pair is ever selected
C30_BudgetAccounting ==
    /\ (/\ pc \in Range(Tiers) \cup {"return", "done"}
        /\ Len(entity.names) >= 2
        /\ config.per_entity_cap >= 0)
       => /\ budget >= 0
          /\ budget + Len(selected) = config.per_entity_cap
    /\ config.per_entity_cap <= 0 => selected = <<>>

\* the walk stands before the non_latin tier, which holds a pair, with pairs of both earlier
\* tiers selected and the rest of the default cap as its budget
C30_Witness ==
    /\ pc = "non_latin" /\ config.per_entity_cap = DefaultCap
    /\ Kept("cross_script") > 0 /\ Kept("latin_latin") > 0
    /\ budget = DefaultCap - Len(selected)
    /\ by_category["non_latin"] # <<>>

---------------------------------------------------------------------------
(* SpecWalk: the tier walk over entities of up to MaxWalkNames names drawn from three, *)
(* with caps up to MaxWalkCap: a tier can be truncated after another was kept in full *)

\* an entity of SpecWalk has at most this many names
MaxWalkNames == 5
\* per_entity_cap of SpecWalk is at most
MaxWalkCap == 7

\* two Latin names and a Cyrillic one
WalkPool ==
    {NameRecord(<<97, 98>>, "name"), NameRecord(<<98, 97>>, "alias"),
     NameRecord(<<1073, 1074>>, "alias")}

InitWalk ==
    /\ entity \in {[entity_id |-> E1, datasets |-> <<"us_ofac_sdn">>, names |-> ns] :
                      ns \in SeqsUpTo(WalkPool, MaxWalkNames)}
    /\ config \in [per_entity_cap : 1..MaxWalkCap, rng_seed : {DefaultSeed, 7},
                    include_categories : {Range(Tiers), {"latin_latin", "non_latin"}}]
    /\ by_category = [tier \in Range(Tiers) |-> <<>>]
    /\ budget = 0 /\ selected = <<>> /\ rng = 0
    /\ pc = "call"
    /\ IdleCall /\ IdleStream /\ IdleCache /\ IdleRuns /\ IdleIPA /\ IdleRest

SpecWalk == InitWalk /\ [][Next]_vars

\* a tier of which some but not all pairs were selected
Truncated(tier) == 0 < Kept(tier) /\ Kept(tier) < Len(by_category[tier])

\* one step of the walk at tier pc: the tier is skipped, kept in full, or shuffled by the
\* seeded generator and cut to the remaining budget, which then is zero
WalkStepOutcome ==
    LET c == by_category[pc] IN
    IF c = <<>> \/ budget <= 0
    THEN selected' = selected /\ budget' = budget
    ELSE IF Len(c) <= budget
    THEN selected' = selected \o c /\ budget' = budget - Len(c)
    ELSE /\ by_category'[pc] = Shuffle(c, rng).list
         /\ \A x \in Range(c) :
               Cardinality({i \in 1..Len(c) : c[i] = x})
                  = Cardinality({i \in 1..Len(c) : by_category'[pc][i] = x})
         /\ selected' = selected \o SubSeq(by_category'[pc], 1, budget)
         /\ Len(selected') = Len(selected) + budget
         /\ budget' = 0

\* C17: in the tier walk each tier is kept in full (its size is at most the remaining
\* budget), or cut to exactly the remaining budget after the seeded shuffle, or skipped; at
\* most one tier is truncated, every tier before it is kept in full and every tier after
\* it contributes no pair
C17_OneTierTruncated ==
    /\ [][(pc \in Range(Tiers)) => WalkStepOutcome]_vars
    /\ [](pc = "done" =>
            /\ Cardinality({i \in 1..3 : Truncated(Tiers[i])}) <= 1
            /\ \A j \in 1..3 : Truncated(Tiers[j]) =>
                  /\ \A i \in 1..(j - 1) : Kept(Tiers[i]) = Len(by_category[Tiers[i]])
                  /\ \A i \in (j + 1)..3 : Kept(Tiers[i]) = 0)

\* a walk that kept the cross_script tier in full, truncated the latin_latin tier and left
\* the non_latin tier out
C17_Witness ==
    /\ pc = "done"
    /\ Kept("cross_script") > 0 /\ Kept("cross_script") = Len(by_category["cross_script"])
    /\ Truncated("latin_latin")
    /\ by_category["non_latin"] # <<>> /\ Kept("non_latin") = 0

---------------------------------------------------------------------------
(* SpecDominant: dominant_script applied to every set of labels *)

InitDominant ==
    /\ fn = "dominant_script" /\ args \in SUBSET Labels /\ ret = None
    /\ IdlePairs /\ IdleStream /\ IdleCache /\ IdleRuns /\ IdleIPA /\ IdleRest

CallDominantScript ==
    /\ fn = "dominant_script"
    /\ ret' = dominant_script(args)
    /\ fn' = "returned"
    /\ UNCHANGED <<args, pairVars, streamVars, _char_cache, runVars, ipaVars, restVars>>

NextDominant == CallDominantScript

SpecDominant == InitDominant /\ [][NextDominant]_vars

\* C6: dominant_script returns for every set: "Unknown" if it is empty, the sole label of a
\* singleton, else the only label left after removing "Latin", else the alphabetically
\* smallest non-Latin label; it never returns "Latin" while a non-Latin label is present
C6_DominantScriptRule ==
    /\ fn # "returned" => ENABLED CallDominantScript
    /\ fn = "returned" =>
        LET non_latin == args \ {"Latin"} IN
        /\ args = {} => ret = "Unknown"
        /\ Cardinality(args) = 1 => args = {ret}
        /\ (Cardinality(args) > 1 /\ Cardinality(non_latin) = 1) => non_latin = {ret}
        /\ (Cardinality(args) > 1 /\ Cardinality(non_latin) > 1) =>
              /\ ret \in non_latin
              /\ \A y \in non_latin : y = ret \/ StrLess(ret, y)
        /\ non_latin # {} => ret # "Latin"

\* a call on a set holding "Latin" and several other labels has returned
C6_Witness ==
    /\ fn = "returned"
    /\ "Latin" \in args
    /\ Cardinality(args \ {"Latin"}) >= 2
    /\ ret = "Arabic"

---------------------------------------------------------------------------
(* SpecClassify: a sequence of _classify_char calls on the process-wide memo *)

\* the characters classified: space, "/", "1", a, b, U+0431, U+0628, U+2D30, U+17000
Chars == {32, 47, 49, 97, 98, 1073, 1576, 11568, 94208}

InitClassify ==
    /\ fn = "" /\ args = <<>> /\ ret = <<>>
    /\ _char_cache = EmptyCache
    /\ IdlePairs /\ IdleStream /\ IdleRuns /\ IdleIPA /\ IdleRest

\* one call _classify_char(ch); args records the character and whether the memo held it
CallClassifyChar(ch) ==
    /\ LET r == _classify_char(ch, _char_cache) IN
        /\ ret' = r.label
        /\ _char_cache' = r.cache
    /\ fn' = "_classify_char"
    /\ args' = [ch |-> ch, cached |-> ch \in DOMAIN _char_cache]
    /\ UNCHANGED <<pairVars, streamVars, runVars, ipaVars, restVars>>

NextClassify == \E ch \in Chars : CallClassifyChar(ch)

SpecClassify == InitClassify /\ [][NextClassify]_vars

\* C20: the memo is transparent: every entry equals the uncached computation for its
\* character (the "no label" outcome included), an entry once made is never changed, and a
\* call returns the same value on a hit as on a miss
C20_MemoTransparent ==
    /\ [](\A ch \in DOMAIN _char_cache : _char_cache[ch] = ClassifyMiss(ch))
    /\ [](fn = "_classify_char" => ret = ClassifyMiss(args.ch))
    /\ [](\A ch \in Chars :
            _classify_char(ch, _char_cache).label = _classify_char(ch, EmptyCache).label)
    /\ [][\A ch \in DOMAIN _char_cache :
            ch \in DOMAIN _char_cache' /\ _char_cache'[ch] = _char_cache[ch]]_vars

\* a call hit an entry holding "no label" while the memo also holds labels, among them an
\* Other(...) label
C20_Witness ==
    /\ fn = "_classify_char" /\ args.cached /\ ret = None
    /\ 11568 \in DOMAIN _char_cache /\ 97 \in DOMAIN _char_cache
    /\ 94208 \in DOMAIN _char_cache

---------------------------------------------------------------------------
(* SpecCanon: _canonical_order applied to two NameRecords in both argument orders *)

\* the NameRecords handed to _canonical_order
CanonRecords ==
    {NameRecord(t, p) :
        t \in {<<97, 98>>, <<98, 97>>, <<1073, 1074>>, <<97, 1073>>, <<1576, 1576>>, <<11568, 98>>},
        p \in {"name", "alias"}}

\* a Latin-first test that looks at the first argument only
CanonicalBranchFirstOnly(dom_a, dom_b, category) ==
    IF category = "cross_script" /\ dom_a = "Latin" THEN "line61" ELSE "fallback"

\* the return statement _canonical_order leaves by: line 61 (a is Latin), line 63 (b is
\* Latin), or the fallback of lines 64-69
CanonicalBranch(dom_a, dom_b, category) ==
    IF category = "cross_script" /\ dom_a = "Latin" THEN "line61"
    ELSE IF category = "cross_script" /\ dom_b = "Latin" THEN "line63"
    ELSE "fallback"

\* _canonical_order on nr_a, nr_b with their dominant scripts and the resulting category,
\* the pair id computed from its result, and the branch it returned by
Canonicalize(entity_id, nr_a, nr_b) ==
    LET dom_a == dominant_script(nr_a.scripts)
        dom_b == dominant_script(nr_b.scripts)
        c     == _canonical_order(nr_a, dom_a, nr_b, dom_b, _classify_pair(dom_a, dom_b))
    IN  [a |-> c[1], dom_a |-> c[2], b |-> c[3], dom_b |-> c[4],
         pair_id |-> _make_pair_id(entity_id, c[1].text, c[3].text),
         category |-> _classify_pair(dom_a, dom_b),
         branch |-> CanonicalBranch(dom_a, dom_b, _classify_pair(dom_a, dom_b))]

InitCanon ==
    /\ fn = "_canonical_order" /\ args \in CanonRecords \X CanonRecords /\ ret = <<>>
    /\ IdlePairs /\ IdleStream /\ IdleCache /\ IdleRuns /\ IdleIPA /\ IdleRest

CallCanonicalOrder ==
    /\ fn = "_canonical_order"
    /\ ret' = <<Canonicalize(E1, args[1], args[2]), Canonicalize(E1, args[2], args[1])>>
    /\ fn' = "returned"
    /\ UNCHANGED <<args, pairVars, streamVars, _char_cache, runVars, ipaVars, restVars>>

NextCanon == CallCanonicalOrder

SpecCanon == InitCanon /\ [][NextCanon]_vars

\* C3: canonicalizing (A,B) and (B,A) gives the same record on side a and the same record on
\* side b (text, dominant script, source_property), and the same pair_id
C3_SwapGivesSameOutput ==
    fn = "returned" =>
        /\ ret[1].a.text = ret[2].a.text /\ ret[1].b.text = ret[2].b.text
        /\ ret[1].dom_a = ret[2].dom_a /\ ret[1].dom_b = ret[2].dom_b
        /\ ret[1].a.source_property = ret[2].a.source_property
        /\ ret[1].b.source_property = ret[2].b.source_property
        /\ ret[1].pair_id = ret[2].pair_id

\* C22 as stated: the fallback branch of _canonical_order is never taken for a pair
\* classified cross_script, whatever the two NameRecords are
C22_FallbackDeadForCrossScript ==
    fn = "returned" =>
        \A k \in 1..2 : ret[k].category = "cross_script" => ret[k].branch # "fallback"

\* C22 amended: for a cross_script pair the fallback branch is taken exactly when neither
\* dominant script is "Latin"; it then puts the name with the smaller dominant script first,
\* and the other branches put the Latin name first
C22_FallbackIffNeitherLatin ==
    fn = "returned" =>
        \A k \in 1..2 : ret[k].category = "cross_script" =>
            /\ ret[k].branch = "fallback" <=> "Latin" \notin {ret[k].dom_a, ret[k].dom_b}
            /\ ret[k].branch = "fallback" => StrLess(ret[k].dom_a, ret[k].dom_b)
            /\ ret[k].branch # "fallback" => ret[k].dom_a = "Latin"
            /\ {ret[k].dom_a, ret[k].dom_b}
                  = {dominant_script(args[1].scripts), dominant_script(args[2].scripts)}

\* a Cyrillic and an Arabic name were canonicalized in both argument orders: the pair is
\* cross_script and both calls took the fallback branch, Arabic first
C22_Witness ==
    /\ fn = "returned"
    /\ dominant_script(args[1].scripts) = "Cyrillic" /\ dominant_script(args[2].scripts) = "Arabic"
    /\ \A k \in 1..2 : /\ ret[k].category = "cross_script" /\ ret[k].branch = "fallback"
                        /\ ret[k].dom_a = "Arabic"

---------------------------------------------------------------------------
(* SpecNames: _clean_names applied to the name properties of one record *)

\* raw values: "ab", " ab ", "ba / ab", U+0431 U+0432, "a", "//", "ab /ba", "ab / ",
\* U+17000 U+17000
RawValues ==
    {<<97, 98>>, <<32, 97, 98, 32>>, <<98, 97, 32, 47, 32, 97, 98>>, <<1073, 1074>>, <<97>>,
     <<47, 47>>, <<97, 98, 32, 47, 98, 97>>, <<97, 98, 32, 47, 32>>, <<94208, 94208>>}

\* the values a sequence of <<key, raw value>> entries gives to key, in order
RECURSIVE ValuesOf(_, _)
ValuesOf(kvs, key) ==
    IF kvs = <<>> THEN <<>>
    ELSE (IF Head(kvs)[1] = key THEN <<Head(kvs)[2]>> ELSE <<>>) \o ValuesOf(Tail(kvs), key)

\* the properties map with the given entries
PropsOf(kvs) == [key \in {kvs[i][1] : i \in 1..Len(kvs)} |-> ValuesOf(kvs, key)]

\* properties maps with up to MaxRaw raw values under "name" and "alias"
PropsInputs == {PropsOf(kvs) : kvs \in SeqsUpTo({"name", "alias"} \X RawValues, MaxRaw)}

\* ExtractionConfigs: with and without splitting, min_name_length 1 and 2
NameConfigs ==
    {[DefaultExtractionConfig EXCEPT !.split_separator = sep, !.min_name_length = m] :
        sep \in {SpaceSlashSpace, <<>>}, m \in {1, 2}}

InitNames ==
    /\ fn = "_clean_names" /\ args \in PropsInputs /\ ret = <<>>
    /\ xconfig \in NameConfigs
    /\ _char_cache = EmptyCache
    /\ f = <<>> /\ lineno = 0 /\ yielded = <<>> /\ origin = <<>> /\ status = "idle" /\ raised = ""
    /\ IdlePairs /\ IdleRuns /\ IdleIPA /\ IdleRest

CallCleanNames ==
    /\ fn = "_clean_names"
    /\ LET r == _clean_names(args, xconfig, _char_cache) IN
        /\ ret' = r.records
        /\ _char_cache' = r.cache
    /\ fn' = "returned"
    /\ UNCHANGED <<args, pairVars, f, lineno, yielded, origin, status, raised, xconfig, runVars, ipaVars, restVars>>

NextNames == CallCleanNames

SpecNames == InitNames /\ [][NextNames]_vars

\* whether a stripped part passes the length and alphabetic filters
Acceptable(text) == Len(text) >= xconfig.min_name_length /\ AnyAlpha(text)

\* C7: _clean_names never returns two NameRecords with the same text, and the record of a
\* text carries the property of the text's first occurrence in scan order
C7_DedupFirstOccurrenceWins ==
    fn = "returned" =>
        LET scan == ScanOrder(args, xconfig)
            First(text) == CHOOSE m \in 1..Len(scan) :
                              /\ scan[m].text = text
                              /\ \A n \in 1..(m - 1) : scan[n].text # text
        IN  /\ \A i \in 1..Len(ret) : \A j \in 1..Len(ret) : i # j => ret[i].text # ret[j].text
            /\ \A k \in 1..Len(scan) : Acceptable(scan[k].text) =>
                  \E i \in 1..Len(ret) :
                      /\ ret[i].text = scan[k].text
                      /\ ret[i].source_property = scan[First(scan[k].text)].prop
            /\ \A i \in 1..Len(ret) : \E k \in 1..Len(scan) :
                  Acceptable(scan[k].text) /\ scan[k].text = ret[i].text

\* a call has returned for properties holding the same stripped text under "name" and
\* under "alias", and further names
C7_Witness ==
    /\ fn = "returned"
    /\ Len(ret) >= 2
    /\ LET scan == ScanOrder(args, xconfig) IN
       \E k \in 1..Len(scan) : \E m \in 1..Len(scan) :
          /\ k < m /\ scan[k].text = scan[m].text /\ Acceptable(scan[k].text)
          /\ scan[k].prop = "name" /\ scan[m].prop = "alias"

\* C18: every NameRecord of the normalizer has a trimmed text of at least min_name_length
\* characters with an alphabetic character, and a non-empty scripts set, so that its
\* dominant script is not "Unknown"
C18_NameRecordWellFormed ==
    fn = "returned" =>
        \A i \in 1..Len(ret) :
            /\ Strip(ret[i].text) = ret[i].text
            /\ Len(ret[i].text) >= xconfig.min_name_length
            /\ AnyAlpha(ret[i].text)
            /\ ret[i].scripts # {}
            /\ dominant_script(ret[i].scripts) # "Unknown"

\* the raw values of the k-th configured name property
RawValuesAt(k) == Get(args, xconfig.name_properties[k], <<>>)

\* the parts of the v-th raw value of the k-th property: the value itself when the
\* separator is empty, else its pieces between separators
PartsAt(k, v) ==
    IF xconfig.split_separator = <<>> THEN <<RawValuesAt(k)[v]>>
    ELSE SplitFrom(RawValuesAt(k)[v], xconfig.split_separator, <<>>)

\* the places <<property, raw value, part>> where the trimmed part is text
Occurrences(text) ==
    UNION {UNION {{<<k, v, q>> : q \in {q \in 1..Len(PartsAt(k, v)) : Strip(PartsAt(k, v)[q]) = text}} :
                    v \in 1..Len(RawValuesAt(k))} :
             k \in 1..Len(xconfig.name_properties)}

\* o1 comes before o2: earlier property, then earlier raw value, then earlier part
Before(o1, o2) ==
    \/ o1[1] < o2[1]
    \/ o1[1] = o2[1] /\ o1[2] < o2[2]
    \/ o1[1] = o2[1] /\ o1[2] = o2[2] /\ o1[3] < o2[3]

\* the first place where text occurs
FirstOccurrence(text) ==
    CHOOSE o \in Occurrences(text) : \A o2 \in Occurrences(text) : o2 = o \/ Before(o, o2)

\* C19: the NameRecords are ordered by first occurrence in scan order: properties in
\* configured order, then raw values in given order, then parts in split order; with an
\* empty separator each raw value is one part
C19_OrderedByFirstOccurrence ==
    fn = "returned" =>
        /\ \A i \in 1..Len(ret) : Occurrences(ret[i].text) # {}
        /\ \A i \in 1..Len(ret) : \A j \in 1..Len(ret) :
              i < j => Before(FirstOccurrence(ret[i].text), FirstOccurrence(ret[j].text))
        /\ xconfig.split_separator = <<>> =>
              \A i \in 1..Len(ret) : \E k \in 1..Len(xconfig.name_properties) :
                 \E v \in 1..Len(RawValuesAt(k)) : ret[i].text = Strip(RawValuesAt(k)[v])

\* a call returned a record from "name" and then the two parts of an "alias" value in
\* split order, "ba" before "ab"
C19_Witness ==
    /\ fn = "returned"
    /\ Len(ret) = 3
    /\ ret[1].source_property = "name"
    /\ ret[2].source_property = "alias" /\ ret[2].text = <<98, 97>>
    /\ ret[3].source_property = "alias" /\ ret[3].text = <<97, 98>>

---------------------------------------------------------------------------
(* SpecStream: stream_entities pulled over an input file *)

\* a line json.loads rejects
InvalidLine == [valid |-> FALSE, obj |-> NoProperties]

\* the dataset lists of the records: no target dataset; two target datasets out of order,
\* with a repetition and a non-target dataset
DatasetLists == {<<"zz_pep">>, <<"us_ofac_sdn", "zz_pep", "eu_fsf", "us_ofac_sdn">>}

\* the properties of the records: no usable name ("//"); "ab" as name, "ab / <U+0431 U+0432>" as alias
StreamProps ==
    {[name |-> <<(<<47, 47>>)>>],
     [name |-> <<(<<97, 98>>)>>, alias |-> <<(<<97, 98, 32, 47, 32, 1073, 1074>>)>>]}

\* the parsed records: with and without an id, and one with an id and a schema only
Objects ==
    {[id |-> E1, schema |-> s, datasets |-> d, properties |-> p] :
        s \in {"Person", "Organization"}, d \in DatasetLists, p \in StreamProps}
    \cup {[schema |-> s, datasets |-> d, properties |-> p] :
        s \in {"Person", "Organization"}, d \in DatasetLists, p \in StreamProps}
    \cup {[id |-> E2, schema |-> "Person"]}

\* the lines of input files
Lines == {InvalidLine} \cup {[valid |-> TRUE, obj |-> o] : o \in Objects}

\* ExtractionConfigs: the default target datasets, and a custom target set
StreamConfigs ==
    {DefaultExtractionConfig,
     [DefaultExtractionConfig EXCEPT !.sanctions_datasets = {{"zz_pep", "eu_fsf"}}]}

InitStream ==
    /\ f \in SeqsUpTo(Lines, MaxLines)
    /\ xconfig \in StreamConfigs
    /\ lineno = 0 /\ yielded = <<>> /\ origin = <<>>
    /\ status = "suspended" /\ raised = ""
    /\ _char_cache = EmptyCache
    /\ IdleCall /\ IdlePairs /\ IdleRuns /\ IdleIPA /\ IdleRest

\* next() runs the generator to its next yield (line 102)
PullYield ==
    /\ status = "suspended"
    /\ LET r == PullFrom(f, lineno, xconfig, _char_cache) IN
        /\ r.outcome = "yield"
        /\ yielded' = Append(yielded, r.record)
        /\ origin' = Append(origin, r.lineno)
        /\ lineno' = r.lineno
        /\ _char_cache' = r.cache
    /\ UNCHANGED <<f, status, raised, xconfig, callVars, pairVars, runVars, ipaVars, restVars>>

\* next() runs the generator into an exception (json.loads at line 90, entity["id"] at line 103)
PullRaise ==
    /\ status = "suspended"
    /\ LET r == PullFrom(f, lineno, xconfig, _char_cache) IN
        /\ r.outcome \in {"JSONDecodeError", "KeyError"}
        /\ raised' = r.outcome
        /\ lineno' = r.lineno
        /\ _char_cache' = r.cache
    /\ status' = "finished"
    /\ UNCHANGED <<f, yielded, origin, xconfig, callVars, pairVars, runVars, ipaVars, restVars>>

\* next() runs the generator to the end of the file
PullStop ==
    /\ status = "suspended"
    /\ LET r == PullFrom(f, lineno, xconfig, _char_cache) IN
        /\ r.outcome = "StopIteration"
        /\ lineno' = r.lineno
        /\ _char_cache' = r.cache
    /\ status' = "finished"
    /\ UNCHANGED <<f, yielded, origin, raised, xconfig, callVars, pairVars, runVars, ipaVars, restVars>>

NextStream == PullYield \/ PullRaise \/ PullStop

SpecStream == InitStream /\ [][NextStream]_vars

\* the three tests of the stream filter on line k of the file
PassesFilters(k) ==
    LET ent == f[k].obj IN
    /\ Get(ent, "schema", None) = xconfig.schema_filter
    /\ \E d \in Range(Get(ent, "datasets", <<>>)) : d \in effective_datasets(xconfig)
    /\ _clean_names(Get(ent, "properties", NoProperties), xconfig, EmptyCache).records # <<>>

\* the lines whose record was yielded
Emitted(k) == \E i \in 1..Len(origin) : origin[i] = k

\* C8 as stated: a record the stream has read is emitted if and only if it passes the schema,
\* dataset and name tests; a record failing one is excluded without raising
C8_EmittedIffPassesFilters ==
    \A k \in 1..lineno : f[k].valid =>
        /\ Emitted(k) <=> PassesFilters(k)
        /\ ~PassesFilters(k) => ~(raised # "" /\ lineno = k)

\* C8 amended: a record the stream has read is emitted if and only if it passes the schema,
\* dataset and name tests and carries an id (one that passes them without an id raises
\* KeyError); a record failing one of the tests is excluded without raising, and the records
\* emitted for the other lines are those of the lines themselves
C8_EmittedIffPassesFiltersAndHasId ==
    /\ \A k \in 1..lineno : f[k].valid =>
        /\ Emitted(k) <=> (PassesFilters(k) /\ "id" \in DOMAIN f[k].obj)
        /\ ~PassesFilters(k) => ~(raised # "" /\ lineno = k)
        /\ (PassesFilters(k) /\ "id" \notin DOMAIN f[k].obj) => (raised = "KeyError" /\ lineno = k)
    /\ \A i \in 1..Len(origin) :
        /\ yielded[i].entity_id = f[origin[i]].obj.id
        /\ yielded[i].names =
              _clean_names(f[origin[i]].obj.properties, xconfig, EmptyCache).records

\* the stream has read three lines: one of another schema, one without a target dataset,
\* and one it yielded
C8_Witness ==
    /\ Len(f) = 3 /\ lineno = 3 /\ origin = <<3>>
    /\ f[1].valid /\ Get(f[1].obj, "schema", None) # xconfig.schema_filter
    /\ f[2].valid /\ Get(f[2].obj, "schema", None) = xconfig.schema_filter
    /\ ~PassesFilters(2)

\* C9: every yielded EntityRecord has a non-empty, strictly ascending datasets tuple equal to
\* the intersection of the record's datasets with the target set, and at least one NameRecord
C9_YieldedDatasetsAndNames ==
    \A i \in 1..Len(yielded) :
        LET ds == yielded[i].datasets IN
        /\ Len(ds) >= 1
        /\ \A m \in 1..(Len(ds) - 1) : StrLess(ds[m], ds[m + 1])
        /\ Range(ds) = Range(f[origin[i]].obj.datasets) \cap effective_datasets(xconfig)
        /\ Len(yielded[i].names) >= 1

\* a record listing us_ofac_sdn (twice), zz_pep and eu_fsf was yielded with the two target
\* datasets in ascending order
C9_Witness ==
    \E i \in 1..Len(yielded) :
        /\ yielded[i].datasets = <<"eu_fsf", "us_ofac_sdn">>
        /\ Len(f[origin[i]].obj.datasets) = 4

\* C10: once the stream has read a malformed line, it has failed with a parse error on that
\* line and read no further; only records of earlier lines were emitted, each in file order
C10_MalformedLineFailsStream ==
    \A k \in 1..Len(f) : (~f[k].valid /\ lineno >= k) =>
        /\ lineno = k
        /\ status = "finished" /\ raised = "JSONDecodeError"
        /\ \A i \in 1..Len(origin) : origin[i] < k
        /\ \A i \in 1..(Len(origin) - 1) : origin[i] < origin[i + 1]
        /\ \A j \in 1..(k - 1) :
              (f[j].valid /\ PassesFilters(j) /\ "id" \in DOMAIN f[j].obj) => Emitted(j)

\* a record was yielded, the next line was malformed, and a record that passes the filters
\* follows it unread
C10_Witness ==
    /\ Len(f) = 3 /\ ~f[2].valid /\ f[3].valid /\ PassesFilters(3) /\ "id" \in DOMAIN f[3].obj
    /\ lineno = 2 /\ origin = <<1>> /\ raised = "JSONDecodeError"

\* C11: a record without an id is fatal to the stream: once the stream has read such a
\* record it has raised on that line and stopped, whatever the record's schema, datasets
\* and names are
C11_MissingIdFailsStream ==
    \A k \in 1..lineno : (f[k].valid /\ "id" \notin DOMAIN f[k].obj) =>
        /\ lineno = k
        /\ status = "finished" /\ raised # ""

---------------------------------------------------------------------------
(* SpecRuns: the pipeline generate_pairs(stream_entities(path)) run twice, each run in a   *)
(* process of its own, on the same file and configuration                                  *)

\* extract_all's loop: the records yielded up to the end of the file or an exception
RECURSIVE ExtractFrom(_, _, _, _, _), Collect(_, _, _, _)
ExtractFrom(file, n, cfg, cache, acc) == Collect(file, cfg, acc, PullFrom(file, n, cfg, cache))

\* for entity in stream_entities(...): one pull r of the generator, then the rest of the loop
Collect(file, cfg, acc, r) ==
    IF r.outcome = "yield"
    THEN ExtractFrom(file, r.lineno, cfg, r.cache, Append(acc, r.record))
    ELSE [entities |-> acc,
          error    |-> IF r.outcome = "StopIteration" THEN "" ELSE r.outcome,
          cache    |-> r.cache]

\* the entities extracted and their pairs, the exception that ended the stream if any, the
\* memo afterwards
PairsOf(x, pcfg) ==
    [entities |-> x.entities, pairs |-> generate_pairs(x.entities, pcfg),
     error |-> x.error, cache |-> x.cache]

\* generate_pairs(stream_entities(path, extract_config), pair_config), drained
Pipeline(file, xcfg, pcfg, cache) == PairsOf(ExtractFrom(file, 0, xcfg, cache, <<>>), pcfg)

\* names of the records of the runs: three Latin names; two Latin names and three names
\* whose dominant script is Cyrillic; one Latin name and one Cyrillic alias
RunProps ==
    {[name |-> <<(<<97, 98>>), (<<98, 97>>), (<<98, 98>>)>>],
     [name |-> <<(<<97, 98>>)>>, alias |-> <<(<<1073, 1074>>)>>],
     [name  |-> <<(<<97, 98, 32, 47, 32, 98, 97>>)>>,
      alias |-> <<(<<1073, 1074, 32, 47, 32, 1074, 1073, 32, 47, 32, 97, 1073>>)>>]}

\* the lines of the input files of the runs
RunLines ==
    {[valid |-> TRUE,
      obj |-> [id |-> i, schema |-> "Person", datasets |-> <<"us_ofac_sdn">>, properties |-> p]] :
        i \in {E1, E2}, p \in RunProps}

\* the memo a process may hold when its run starts: empty, or with correct entries for
\* the space (no script) and a Cyrillic letter
Memos == {[c \in D |-> ClassifyMiss(c)] : D \in {{}, {32, 1073}}}

\* the per-process salts of hash()
Salts == {0, 1}

InitRuns ==
    /\ f \in SeqsUpTo(RunLines, MaxRunLines)
    /\ xconfig = DefaultExtractionConfig
    /\ config \in {c \in Configs : c.include_categories = Range(Tiers) /\ c.per_entity_cap > 0}
    /\ proc = 0 /\ hashsalt = 0 /\ out = <<>>
    /\ status = "exited"
    /\ _char_cache = EmptyCache
    /\ entity = [entity_id |-> <<>>, datasets |-> <<>>, names |-> <<>>]
    /\ by_category = [tier \in Range(Tiers) |-> <<>>]
    /\ budget = 0 /\ selected = <<>> /\ rng = 0 /\ pc = "idle"
    /\ lineno = 0 /\ yielded = <<>> /\ origin = <<>> /\ raised = ""
    /\ IdleCall /\ IdleIPA /\ IdleRest

\* a fresh process starts: its hash salt is drawn, its memo holds what earlier calls left
StartProcess ==
    /\ status = "exited" /\ proc < 2
    /\ proc' = proc + 1
    /\ hashsalt' \in Salts
    /\ _char_cache' \in Memos
    /\ status' = "started"
    /\ UNCHANGED <<ipaVars, restVars>>
    /\ UNCHANGED <<f, xconfig, config, out, callVars, entity, by_category, budget, selected,
                   rng, pc, lineno, yielded, origin, raised>>

\* the process runs the pipeline over the file and exits
RunPipeline ==
    /\ status = "started"
    /\ \E r \in {Pipeline(f, xconfig, config, _char_cache)} :
        /\ out' = Append(out, [memo |-> _char_cache, entities |-> r.entities,
                                pairs |-> r.pairs, error |-> r.error])
        /\ _char_cache' = r.cache
    /\ status' = "exited"
    /\ UNCHANGED <<ipaVars, restVars>>
    /\ UNCHANGED <<f, xconfig, config, proc, hashsalt, callVars, entity, by_category, budget,
                   selected, rng, pc, lineno, yielded, origin, raised>>

NextRuns == StartProcess \/ RunPipeline

SpecRuns == InitRuns /\ [][NextRuns]_vars

\* what C4 compares: the pair ids with the names and the category of each
PairView(pairs) ==
    {<<pairs[k].pair_id, pairs[k].name_a, pairs[k].name_b, pairs[k].pair_category>> :
        k \in 1..Len(pairs)}

\* C4: two independent runs on the same input and configuration produce the same set of
\* pair_ids with the same (name_a, name_b, pair_category) for each, whatever the memo held
\* when each run started and also when the cap truncates a tier
C4_RunsAgree ==
    Len(out) = 2 =>
        /\ PairView(out[1].pairs) = PairView(out[2].pairs)
        /\ {out[1].pairs[k].pair_id : k \in 1..Len(out[1].pairs)}
              = {out[2].pairs[k].pair_id : k \in 1..Len(out[2].pairs)}

\* two runs have finished that started from different memos, on a file of two entities
\* whose pairs the cap truncated
C4_Witness ==
    /\ Len(out) = 2
    /\ out[1].memo # out[2].memo
    /\ Len(f) = 2 /\ f[1].obj.id # f[2].obj.id
    /\ Len(out[1].pairs) = 2 * config.per_entity_cap
    /\ Len(generate_pairs(ExtractFrom(f, 0, xconfig, EmptyCache, <<>>).entities,
                          [config EXCEPT !.per_entity_cap = DefaultCap]))
          > Len(out[1].pairs)

\* PairConfig(): the defaults
DefaultPairConfig ==
    [per_entity_cap |-> DefaultCap, rng_seed |-> DefaultSeed, include_categories |-> Range(Tiers)]

\* a text made of letters of one Unicode block only
LettersOf(text, block) ==
    text # <<>> /\ \A i \in 1..Len(text) : IsAlpha(text[i]) /\ UnicodeBlock(text[i]) = block

\* a Person record in a target dataset with one Latin-only name under name and one
\* Cyrillic-only name under alias
OneLatinNameOneCyrillicAlias(ent) ==
    /\ ent.schema = "Person"
    /\ Range(ent.datasets) \cap DEFAULT_SANCTIONS_DATASETS # {}
    /\ DOMAIN ent.properties = {"name", "alias"}
    /\ Len(ent.properties.name) = 1 /\ LettersOf(ent.properties.name[1], "LATIN")
    /\ Len(ent.properties.alias) = 1 /\ LettersOf(ent.properties.alias[1], "CYRILLIC")

\* C12: a file of one Person record in a target dataset with a Latin-only name and a
\* Cyrillic-only alias, run with the default configuration, yields one EntityRecord with two
\* NameRecords and one NamePair: cross_script, name_a the Latin name, pair_id the truncated
\* hash of entity_id, NUL, Latin name, NUL, Cyrillic name
C12_EndToEndOnePair ==
    \A k \in 1..Len(out) :
        (/\ Len(f) = 1 /\ OneLatinNameOneCyrillicAlias(f[1].obj)
         /\ xconfig = DefaultExtractionConfig /\ config = DefaultPairConfig)
        => LET latin    == f[1].obj.properties.name[1]
               cyrillic == f[1].obj.properties.alias[1]
           IN  /\ out[k].error = ""
               /\ Len(out[k].entities) = 1
               /\ Len(out[k].entities[1].names) = 2
               /\ Len(out[k].pairs) = 1
               /\ out[k].pairs[1].pair_category = "cross_script"
               /\ out[k].pairs[1].name_a = latin
               /\ out[k].pairs[1].name_b = cyrillic
               /\ out[k].pairs[1].pair_id =
                     Sha256Hex16(Utf8(f[1].obj.id \o <<0>> \o latin \o <<0>> \o cyrillic))

\* a run with the default configuration over a file of one such record has finished
C12_Witness ==
    /\ Len(out) >= 1
    /\ Len(f) = 1 /\ OneLatinNameOneCyrillicAlias(f[1].obj)
    /\ xconfig = DefaultExtractionConfig /\ config = DefaultPairConfig
    /\ Len(out[1].pairs) = 1 /\ out[1].pairs[1].script_b = "Cyrillic"

---------------------------------------------------------------------------
(* dd_name_ipa/generate.py: best-of-N transcription of one name *)

\* the number of calls gathered for one name (GenerationConfig.n) is at most
MaxN == 3

\* "<think>" and "</think>"
ThinkOpen  == <<60, 116, 104, 105, 110, 107, 62>>
ThinkClose == <<60, 47, 116, 104, 105, 110, 107, 62>>

\* the position of the first occurrence of sub in s at or after position i, 0 if there is none
RECURSIVE Find(_, _, _)
Find(s, sub, i) ==
    IF i + Len(sub) - 1 > Len(s) THEN 0
    ELSE IF SubSeq(s, i, i + Len(sub) - 1) = sub THEN i
    ELSE Find(s, sub, i + 1)

\* re.sub(r"<think>.*?</think>", "", text, flags=re.DOTALL)
RECURSIVE RemoveThink(_)
RemoveThink(text) ==
    LET open  == Find(text, ThinkOpen, 1)
        close == IF open = 0 THEN 0 ELSE Find(text, ThinkClose, open + Len(ThinkOpen))
    IN  IF close = 0 THEN text
        ELSE SubSeq(text, 1, open - 1)
                \o RemoveThink(SubSeq(text, close + Len(ThinkClose), Len(text)))

\* str.strip("/")
RECURSIVE LStripSlash(_)
LStripSlash(s) == IF s # <<>> /\ Head(s) = 47 THEN LStripSlash(Tail(s)) ELSE s

RECURSIVE RStripSlash(_)
RStripSlash(s) ==
    IF s # <<>> /\ s[Len(s)] = 47 THEN RStripSlash(SubSeq(s, 1, Len(s) - 1)) ELSE s

StripSlash(s) == RStripSlash(LStripSlash(s))

\* _IPA_PATTERN.match(text): ^/(.+)/$ on a stripped text ("." matches no newline)
IpaPatternMatches(text) ==
    /\ Len(text) >= 3 /\ text[1] = 47 /\ text[Len(text)] = 47
    /\ \A i \in 2..(Len(text) - 1) : text[i] # 10

\* _normalize_ipa(raw)
_normalize_ipa(raw) ==
    LET text == Strip(RemoveThink(Strip(raw))) IN
    IF IpaPatternMatches(text)
    THEN Strip(SubSeq(text, 2, Len(text) - 1))
    ELSE Strip(StripSlash(Strip(SplitFrom(text, <<10>>, <<>>)[1])))

\* [f(x) for x in xs]
NormalizeAll(xs) == [i \in 1..Len(xs) |-> _normalize_ipa(xs[i])]

\* Counter(xs)[v]
CountOf(xs, v) == Cardinality({i \in 1..Len(xs) : xs[i] = v})

\* Counter(xs).most_common(1)[0]: the most frequent element, the first inserted among equals
MostCommon(xs) ==
    LET i == CHOOSE i \in 1..Len(xs) :
                 /\ \A j \in 1..Len(xs) : CountOf(xs, xs[j]) <= CountOf(xs, xs[i])
                 /\ \A j \in 1..(i - 1) : CountOf(xs, xs[j]) < CountOf(xs, xs[i])
    IN  [best |-> xs[i], count |-> CountOf(xs, xs[i])]

\* a float that is the quotient of two integers, kept as the quotient; 0.0 is 0/1
Zero == [num |-> 0, den |-> 1]

IsNonEmpty(c) == c # <<>>

\* _select_consensus(candidates)
_select_consensus(candidates) ==
    LET normalized == SelectSeq(NormalizeAll(candidates), IsNonEmpty) IN
    IF candidates = <<>> \/ normalized = <<>> THEN [ipa |-> <<>>, confidence |-> Zero]
    ELSE LET m == MostCommon(normalized) IN
         [ipa |-> m.best, confidence |-> [num |-> m.count, den |-> Len(candidates)]]

\* IPAResult(name, ipa, confidence, candidates) as _generate_one builds it from the gathered
\* results: the calls that returned None are left out of the candidates
IPAResultOf(name, results) ==
    LET IsContent(r) == r.state = "content"
        returned     == SelectSeq(results, IsContent)
        candidates   == [i \in 1..Len(returned) |-> returned[i].content]
    IN  IF candidates = <<>>
        THEN [name |-> name, ipa |-> <<>>, confidence |-> Zero, candidates |-> <<>>]
        ELSE LET c == _select_consensus(candidates) IN
             [name |-> name, ipa |-> c.ipa, confidence |-> c.confidence,
              candidates |-> candidates]

---------------------------------------------------------------------------
(* SpecIPA: one call of _generate_one: N calls gated by the semaphore, gathered *)

\* the contents the API returns: "/a/", "a", "/b/", "", "<think>b</think>/a/"
Responses ==
    {<<47, 97, 47>>, <<97>>, <<47, 98, 47>>, <<>>,
     ThinkOpen \o <<98>> \o ThinkClose \o <<47, 97, 47>>}

\* the name transcribed
IPAName == <<97, 98>>

\* the states of one of the N calls: waiting for the semaphore, posted, returned None,
\* returned a content
Waiting == [state |-> "waiting"]
Posted  == [state |-> "posted"]
Failed  == [state |-> "None"]
Content(c) == [state |-> "content", content |-> c]

\* GenerationConfigs: n calls, concurrent_requests permits
GenerationConfigs == {[n |-> k, concurrent_requests |-> c] : k \in 1..MaxN, c \in {1, 2}}

\* the calls holding a permit of the semaphore
InFlight == {i \in 1..Len(raw_results) : raw_results[i] = Posted}

\* _generate_one has returned
Returned == DOMAIN ipa_result # {}

InitIPA ==
    /\ gconfig \in GenerationConfigs
    /\ raw_results = [i \in 1..gconfig.n |-> Waiting]
    /\ ipa_result = <<>>
    /\ IdleCall /\ IdlePairs /\ IdleStream /\ IdleCache /\ IdleRuns /\ IdleRest

\* async with semaphore: client.post(...)
PostCall(i) ==
    /\ raw_results[i] = Waiting
    /\ Cardinality(InFlight) < gconfig.concurrent_requests
    /\ raw_results' = [raw_results EXCEPT ![i] = Posted]
    /\ UNCHANGED <<gconfig, ipa_result, callVars, pairVars, streamVars, _char_cache, runVars, restVars>>

\* _single_call returns the content of the response
SingleCallReturns(i) ==
    /\ raw_results[i] = Posted
    /\ \E c \in Responses : raw_results' = [raw_results EXCEPT ![i] = Content(c)]
    /\ UNCHANGED <<gconfig, ipa_result, callVars, pairVars, streamVars, _char_cache, runVars, restVars>>

\* _single_call catches HTTPError, KeyError or IndexError and returns None
SingleCallFails(i) ==
    /\ raw_results[i] = Posted
    /\ raw_results' = [raw_results EXCEPT ![i] = Failed]
    /\ UNCHANGED <<gconfig, ipa_result, callVars, pairVars, streamVars, _char_cache, runVars, restVars>>

\* asyncio.gather has every result: _generate_one builds the IPAResult
GenerateOneReturns ==
    /\ ~Returned
    /\ \A i \in 1..Len(raw_results) : raw_results[i].state \in {"None", "content"}
    /\ ipa_result' = IPAResultOf(IPAName, raw_results)
    /\ UNCHANGED <<gconfig, raw_results, callVars, pairVars, streamVars, _char_cache, runVars, restVars>>

NextIPA ==
    \/ \E i \in 1..Len(raw_results) : PostCall(i)
    \/ \E i \in 1..Len(raw_results) : SingleCallReturns(i)
    \/ \E i \in 1..Len(raw_results) : SingleCallFails(i)
    \/ GenerateOneReturns

SpecIPA == InitIPA /\ [][NextIPA]_vars

\* the candidates that normalize to the consensus transcription
Agreeing ==
    {i \in 1..Len(raw_results) :
        raw_results[i].state = "content" /\ _normalize_ipa(raw_results[i].content) = ipa_result.ipa}

\* C13: the confidence of an IPAResult is the proportion of the N requested candidates that
\* agreed with the consensus: (candidates normalizing to ipa) / config.n, within [0, 1], and
\* 0 when there is no consensus, for every outcome of the N calls
C13_ConfidenceIsShareOfN ==
    Returned =>
        LET c == ipa_result.confidence IN
        /\ c.den > 0 /\ 0 <= c.num /\ c.num <= c.den
        /\ ipa_result.ipa = <<>> => c.num = 0
        /\ ipa_result.ipa # <<>> => c.num * gconfig.n = Cardinality(Agreeing) * c.den

---------------------------------------------------------------------------
(* SpecThreads: threads calling _classify_char on the one memo, without a lock: a thread *)
(* can be preempted between any two of its accesses to the memo                          *)

\* the number of threads
MaxThreads == 2

\* the characters the threads classify: space, a, U+17000
ThreadChars == {32, 97, 94208}

\* the frame of a thread that is not in _classify_char
NoFrame == [pc |-> "idle", ch |-> 0, cached |-> None, result |-> None, ret |-> None]

InitThreads ==
    /\ threads = [t \in 1..MaxThreads |-> NoFrame]
    /\ _char_cache = EmptyCache
    /\ IdleCall /\ IdlePairs /\ IdleStream /\ IdleRuns /\ IdleIPA /\ IdleSeq /\ IdleBatch

\* thread t calls _classify_char(ch)
ThreadCall(t, ch) ==
    /\ threads[t].pc \in {"idle", "returned"}
    /\ threads' = [threads EXCEPT ![t] = [NoFrame EXCEPT !.pc = "line50", !.ch = ch]]
    /\ UNCHANGED <<_char_cache, callVars, pairVars, streamVars, runVars, ipaVars, seqVars, batchVars>>

\* line 50: cached = _char_cache.get(ch)
ThreadGet(t) ==
    /\ threads[t].pc = "line50"
    /\ threads' = [threads EXCEPT ![t].cached = Get(_char_cache, threads[t].ch, None),
                                  ![t].pc = "line51"]
    /\ UNCHANGED <<_char_cache, callVars, pairVars, streamVars, runVars, ipaVars, seqVars, batchVars>>

\* lines 51-64: return the cached label; else test ch in _char_cache and return None on an
\* entry; else compute the label
ThreadTest(t) ==
    /\ threads[t].pc = "line51"
    /\ \E fr \in {threads[t]} :
          threads' = [threads EXCEPT ![t] =
             IF fr.cached # None THEN [fr EXCEPT !.ret = fr.cached, !.pc = "returned"]
             ELSE IF fr.ch \in DOMAIN _char_cache THEN [fr EXCEPT !.ret = None, !.pc = "returned"]
             ELSE [fr EXCEPT !.result = ClassifyMiss(fr.ch), !.pc = "line65"]]
    /\ UNCHANGED <<_char_cache, callVars, pairVars, streamVars, runVars, ipaVars, seqVars, batchVars>>

\* lines 65-66: _char_cache[ch] = result; return result
ThreadStore(t) ==
    /\ threads[t].pc = "line65"
    /\ _char_cache' = [c \in DOMAIN _char_cache \cup {threads[t].ch} |->
                          IF c = threads[t].ch THEN threads[t].result ELSE _char_cache[c]]
    /\ threads' = [threads EXCEPT ![t].ret = threads[t].result, ![t].pc = "returned"]
    /\ UNCHANGED <<callVars, pairVars, streamVars, runVars, ipaVars, seqVars, batchVars>>

NextThreads ==
    \/ \E t \in 1..MaxThreads : \E ch \in ThreadChars : ThreadCall(t, ch)
    \/ \E t \in 1..MaxThreads : ThreadGet(t)
    \/ \E t \in 1..MaxThreads : ThreadTest(t)
    \/ \E t \in 1..MaxThreads : ThreadStore(t)

SpecThreads == InitThreads /\ [][NextThreads]_vars

\* C21: under every interleaving of unsynchronized _classify_char calls on the one memo,
\* every call returns the label of the uncached computation, and the memo never holds a
\* wrong value for a character
C21_ConcurrentCallsAgree ==
    /\ \A t \in 1..MaxThreads :
          threads[t].pc = "returned" => threads[t].ret = ClassifyMiss(threads[t].ch)
    /\ \A ch \in DOMAIN _char_cache : _char_cache[ch] = ClassifyMiss(ch)

---------------------------------------------------------------------------
(* SpecSeq: generate_pairs drained over a sequence of entities; the variables of the tier *)
(* walk keep what the call for the previous entity left in them                           *)

\* the longest sequence of entities handed to generate_pairs
MaxEntities == 3

\* the names of the entities: three Latin names; two Latin names around a Cyrillic one; one name
SeqNames ==
    {<<NameRecord(<<97, 98>>, "name"), NameRecord(<<98, 97>>, "alias"), NameRecord(<<98, 98>>, "alias")>>,
     <<NameRecord(<<97, 98>>, "name"), NameRecord(<<1073, 1074>>, "alias"), NameRecord(<<98, 97>>, "alias")>>,
     <<NameRecord(<<97, 98>>, "name")>>}

SeqEntities ==
    {[entity_id |-> i, datasets |-> <<"us_ofac_sdn">>, names |-> ns] : i \in {E1, E2}, ns \in SeqNames}

InitSeq ==
    /\ input_entities \in SeqsUpTo(SeqEntities, MaxEntities)
    /\ config \in [per_entity_cap : {1, 2}, rng_seed : {DefaultSeed, 7},
                    include_categories : {Range(Tiers)}]
    /\ consumed = 0 /\ emitted = <<>>
    /\ entity = [entity_id |-> <<>>, datasets |-> <<>>, names |-> <<>>]
    /\ by_category = [tier \in Range(Tiers) |-> <<>>]
    /\ budget = 0 /\ selected = <<>> /\ rng = 0
    /\ pc = "for"
    /\ IdleCall /\ IdleStream /\ IdleCache /\ IdleRuns /\ IdleIPA /\ IdleThreads /\ IdleBatch

\* line 151-152: the loop takes the next entity and calls _generate_entity_pairs on it
TakeEntity ==
    /\ pc = "for" /\ consumed < Len(input_entities)
    /\ entity' = input_entities[consumed + 1]
    /\ consumed' = consumed + 1
    /\ pc' = "call"
    /\ UNCHANGED <<input_entities, emitted, config, by_category, budget, selected, rng>>
    /\ UNCHANGED <<callVars, streamVars, _char_cache, runVars, ipaVars, threadVars, batchVars>>

\* line 152: yield from the list returned
YieldFrom ==
    /\ pc = "done" /\ consumed > 0
    /\ emitted' = emitted \o selected
    /\ pc' = "for"
    /\ UNCHANGED <<input_entities, consumed, entity, config, by_category, budget, selected, rng>>
    /\ UNCHANGED <<callVars, streamVars, _char_cache, runVars, ipaVars, threadVars, batchVars>>

\* line 151: the input is exhausted
Exhausted ==
    /\ pc = "for" /\ consumed = Len(input_entities)
    /\ pc' = "exhausted"
    /\ UNCHANGED <<input_entities, consumed, emitted, entity, config, by_category, budget,
                   selected, rng>>
    /\ UNCHANGED <<callVars, streamVars, _char_cache, runVars, ipaVars, threadVars, batchVars>>

NextSeq == TakeEntity \/ ReturnEmpty \/ Enumerate \/ Walk \/ Return \/ YieldFrom \/ Exhausted

SpecSeq == InitSeq /\ [][NextSeq]_vars

\* the entities whose pairs have been yielded
YieldedFrom == IF pc \in {"for", "exhausted"} THEN consumed ELSE consumed - 1

\* the pairs an entity yields when it is the only entity processed
OwnPairs(ent) == generate_pairs(<<ent>>, config)

\* C23: the pairs yielded so far are the concatenation, in entity order, of the pairs each
\* entity yields on its own; so the pairs of an entity, and which of them survive a
\* truncating cap, do not depend on the entities processed before it
C23_StatelessAcrossEntities ==
    /\ emitted = Flatten([k \in 1..YieldedFrom |-> OwnPairs(input_entities[k])])
    /\ pc = "done" => selected = OwnPairs(entity)

\* generate_pairs was drained over three entities, the cap truncating the pairs of the second
\* and the third, the second after a different entity and the third after itself
C23_Witness ==
    /\ pc = "exhausted" /\ Len(input_entities) = 3
    /\ input_entities[1] # input_entities[2] /\ input_entities[2] = input_entities[3]
    /\ input_entities[1].entity_id # input_entities[2].entity_id
    /\ \A k \in 1..3 : Len(input_entities[k].names) = 3
    /\ Len(emitted) = 3 * config.per_entity_cap

---------------------------------------------------------------------------
(* dd_name_ipa/generate.py: _single_call on the responses of the API *)

\* what client.post gives _single_call: a 200 response carrying a content, an error status,
\* a transport error or timeout, a JSON body without "choices", a JSON body with an empty
\* "choices", a body that is not JSON
ResponseKinds == {"ok", "error_status", "transport_error", "no_choices", "empty_choices", "not_json"}

\* the exception raised inside the try block of _single_call, "" if there is none:
\* client.post raises a TransportError, raise_for_status an HTTPStatusError, resp.json() a
\* json.JSONDecodeError, and the subscripts a KeyError or an IndexError
ExceptionIn(kind) ==
    CASE kind = "ok"              -> ""
      [] kind = "transport_error" -> "httpx.TransportError"
      [] kind = "error_status"    -> "httpx.HTTPStatusError"
      [] kind = "not_json"        -> "json.JSONDecodeError"
      [] kind = "no_choices"      -> "KeyError"
      [] kind = "empty_choices"   -> "IndexError"

\* except (httpx.HTTPError, KeyError, IndexError): TransportError and HTTPStatusError are
\* HTTPErrors; json.JSONDecodeError is a ValueError
Caught(exc) == exc \in {"httpx.TransportError", "httpx.HTTPStatusError", "KeyError", "IndexError"}

\* a call that let an exception escape
Raised(exc) == [state |-> "raised", exception |-> exc]

\* _single_call(client, payload, api_url) on a response of the given kind and content
_single_call(kind, content) ==
    IF ExceptionIn(kind) = "" THEN Content(content)
    ELSE IF Caught(ExceptionIn(kind)) THEN Failed
    ELSE Raised(ExceptionIn(kind))

---------------------------------------------------------------------------
(* SpecBatch: generate_batch_async over a batch of names, chunk by chunk; every name of a *)
(* chunk runs _generate_one, whose N calls share the semaphore                            *)

\* the longest batch of names
MaxBatchNames == 3
\* the names of a batch: "ab", "b"
BatchNames == {<<97, 98>>, <<98>>}

\* the batches: up to MaxBatchNames names, no name next to itself
BatchInputs ==
    {ns \in SeqsUpTo(BatchNames, MaxBatchNames) : \A k \in 1..(Len(ns) - 1) : ns[k] # ns[k + 1]}

\* the content the API returns in a batch: "/a/"
BatchResponses == {<<47, 97, 47>>}

\* the values of chunk_size
ChunkSizes == {1, 2}

\* the GenerationConfigs of a batch: one or two calls per name, one or two permits
BatchConfigs == {[n |-> k, concurrent_requests |-> c] : k \in {1, 2}, c \in {1, 2}}

\* a _generate_one coroutine that was not created yet
NoTask == [state |-> "unborn", raw_results |-> <<>>, result |-> <<>>]

\* a chunk that holds every name left
ChunkIndicesAllLeft(start, size, len) == [k \in 1..(len - start) |-> start + k]

\* the positions in names of names[chunk_start : chunk_start + chunk_size]
ChunkIndices(start, size, len) ==
    [k \in 1..((IF start + size <= len THEN start + size ELSE len) - start) |-> start + k]

\* the current chunk
Chunk == ChunkIndices(chunk_start, chunk_size, Len(batch_names))

\* a permit that is handed back only when the call returned
ReleaseOnReturn(permits, outcome) == IF outcome.state = "raised" THEN permits ELSE permits + 1

\* leaving async with semaphore, by return or by exception
Release(permits, outcome) == permits + 1

\* the results of a chunk in the order the coroutines returned in
ChunkResultsAsCompleted(ts, chunk, order) ==
    LET InChunk(i) == i \in Range(chunk)
        done == SelectSeq(order, InChunk)
    IN  [k \in 1..Len(done) |-> ts[done[k]].result]

\* asyncio.gather(*chunk_tasks): the results in the order of the tasks
ChunkResults(ts, chunk, order) == [k \in 1..Len(chunk) |-> ts[chunk[k]].result]

InitBatch ==
    /\ batch_names \in BatchInputs
    /\ chunk_size \in ChunkSizes
    /\ gconfig \in BatchConfigs
    /\ chunk_start = 0
    /\ tasks = [i \in 1..Len(batch_names) |-> NoTask]
    /\ semaphore = gconfig.concurrent_requests
    /\ batch_results = <<>> /\ finished = <<>>
    /\ bpc = "for"
    /\ raw_results = <<>> /\ ipa_result = <<>>
    /\ IdleCall /\ IdlePairs /\ IdleStream /\ IdleCache /\ IdleRuns /\ IdleThreads /\ IdleSeq

\* lines 156-162: the loop creates the _generate_one coroutines of the next chunk and
\* awaits them
StartChunk ==
    /\ bpc = "for" /\ chunk_start < Len(batch_names)
    /\ tasks' = [i \in 1..Len(batch_names) |->
                    IF i \in Range(Chunk)
                    THEN [state |-> "running", raw_results |-> [j \in 1..gconfig.n |-> Waiting],
                          result |-> <<>>]
                    ELSE tasks[i]]
    /\ bpc' = "gather"
    /\ UNCHANGED <<batch_names, chunk_size, chunk_start, semaphore, batch_results, finished>>
    /\ UNCHANGED <<callVars, pairVars, streamVars, _char_cache, runVars, ipaVars, threadVars, seqVars>>

\* lines 115-116: call j of name i enters async with semaphore and posts its request
AcquireAndPost(i, j) ==
    /\ tasks[i].raw_results[j] = Waiting
    /\ semaphore > 0
    /\ semaphore' = semaphore - 1
    /\ tasks' = [tasks EXCEPT ![i].raw_results[j] = Posted]
    /\ UNCHANGED <<batch_names, chunk_size, chunk_start, batch_results, finished, bpc>>
    /\ UNCHANGED <<callVars, pairVars, streamVars, _char_cache, runVars, ipaVars, threadVars, seqVars>>

\* lines 92-99 and the exit of async with semaphore: the response arrives, _single_call
\* returns or raises, the permit goes back
SingleCallDone(i, j) ==
    /\ tasks[i].raw_results[j] = Posted
    /\ \E outcome \in {_single_call(kind, content) : kind \in ResponseKinds, content \in BatchResponses} :
          /\ tasks' = [tasks EXCEPT ![i].raw_results[j] = outcome]
          /\ semaphore' = Release(semaphore, outcome)
    /\ UNCHANGED <<batch_names, chunk_size, chunk_start, batch_results, finished, bpc>>
    /\ UNCHANGED <<callVars, pairVars, streamVars, _char_cache, runVars, ipaVars, threadVars, seqVars>>

\* lines 118-131: the gather of name i has its N results, _generate_one returns the IPAResult
TaskReturns(i) ==
    /\ tasks[i].state = "running"
    /\ \A j \in 1..Len(tasks[i].raw_results) : tasks[i].raw_results[j].state \in {"None", "content"}
    /\ tasks' = [tasks EXCEPT ![i].state = "returned",
                              ![i].result = IPAResultOf(batch_names[i], tasks[i].raw_results)]
    /\ finished' = Append(finished, i)
    /\ UNCHANGED <<batch_names, chunk_size, chunk_start, semaphore, batch_results, bpc>>
    /\ UNCHANGED <<callVars, pairVars, streamVars, _char_cache, runVars, ipaVars, threadVars, seqVars>>

\* line 118: a call of name i raised, the gather hands the exception to _generate_one, which
\* lets it out; the other calls run on
TaskRaises(i) ==
    /\ tasks[i].state = "running"
    /\ \E j \in 1..Len(tasks[i].raw_results) : tasks[i].raw_results[j].state = "raised"
    /\ tasks' = [tasks EXCEPT ![i].state = "raised"]
    /\ UNCHANGED <<batch_names, chunk_size, chunk_start, semaphore, batch_results, finished, bpc>>
    /\ UNCHANGED <<callVars, pairVars, streamVars, _char_cache, runVars, ipaVars, threadVars, seqVars>>

\* lines 162-164: every coroutine of the chunk returned; the results are appended
GatherChunk ==
    /\ bpc = "gather"
    /\ \A i \in Range(Chunk) : tasks[i].state = "returned"
    /\ batch_results' = batch_results \o ChunkResults(tasks, Chunk, finished)
    /\ chunk_start' = chunk_start + chunk_size
    /\ bpc' = "for"
    /\ UNCHANGED <<batch_names, chunk_size, tasks, semaphore, finished>>
    /\ UNCHANGED <<callVars, pairVars, streamVars, _char_cache, runVars, ipaVars, threadVars, seqVars>>

\* a call cancelled before it finished
Cancelled == [state |-> "cancelled"]

\* the calls holding a permit of the semaphore
Holding == {ij \in (1..Len(tasks)) \X (1..gconfig.n) :
               tasks[ij[1]].state # "unborn" /\ tasks[ij[1]].raw_results[ij[2]] = Posted}

\* lines 162, 177: a coroutine of the chunk raised; the gather raises, generate_batch_async
\* lets the exception out, and asyncio.run cancels the tasks still running: a cancelled call
\* leaves async with semaphore and hands its permit back
BatchRaises ==
    /\ bpc = "gather"
    /\ \E i \in Range(Chunk) : tasks[i].state = "raised"
    /\ bpc' = "raised"
    /\ tasks' = [i \in 1..Len(tasks) |->
                    [state       |-> IF tasks[i].state = "running" THEN "cancelled" ELSE tasks[i].state,
                     raw_results |-> [j \in 1..Len(tasks[i].raw_results) |->
                                         IF tasks[i].raw_results[j] \in {Waiting, Posted}
                                         THEN Cancelled ELSE tasks[i].raw_results[j]],
                     result      |-> tasks[i].result]]
    /\ semaphore' = semaphore + Cardinality(Holding)
    /\ UNCHANGED <<batch_names, chunk_size, chunk_start, batch_results, finished>>
    /\ UNCHANGED <<callVars, pairVars, streamVars, _char_cache, runVars, ipaVars, threadVars, seqVars>>

\* lines 156, 168: no name is left; return results
ReturnResults ==
    /\ bpc = "for" /\ chunk_start >= Len(batch_names)
    /\ bpc' = "returned"
    /\ UNCHANGED <<batch_names, chunk_size, chunk_start, tasks, semaphore, batch_results, finished>>
    /\ UNCHANGED <<callVars, pairVars, streamVars, _char_cache, runVars, ipaVars, threadVars, seqVars>>

NextBatch ==
    \/ StartChunk
    \/ \E i \in 1..Len(tasks) : \E j \in 1..Len(tasks[i].raw_results) : AcquireAndPost(i, j)
    \/ \E i \in 1..Len(tasks) : \E j \in 1..Len(tasks[i].raw_results) : SingleCallDone(i, j)
    \/ \E i \in 1..Len(tasks) : TaskReturns(i)
    \/ \E i \in 1..Len(tasks) : TaskRaises(i)
    \/ GatherChunk
    \/ BatchRaises
    \/ ReturnResults

SpecBatch == InitBatch /\ [][NextBatch]_vars

\* C24: at every moment the calls in flight, over all names of the batch, are at most
\* concurrent_requests, and every permit taken is handed back when its call ends, by a
\* content, by None or by an exception: permits left + calls in flight = concurrent_requests
C24_InFlightWithinPermits ==
    /\ Cardinality(Holding) <= gconfig.concurrent_requests
    /\ semaphore >= 0
    /\ semaphore + Cardinality(Holding) = gconfig.concurrent_requests

\* both permits are held by calls of two different names while a third call waits for a
\* permit, after a call that failed handed its permit back
C24_Witness ==
    /\ gconfig.concurrent_requests = 2 /\ semaphore = 0
    /\ \E a, b \in Holding : a[1] # b[1]
    /\ \E i \in 1..Len(tasks) : \E j \in 1..Len(tasks[i].raw_results) :
          tasks[i].raw_results[j] = Waiting
    /\ \E i \in 1..Len(tasks) : \E j \in 1..Len(tasks[i].raw_results) :
          tasks[i].raw_results[j] = Failed

\* C25: _single_call never lets an exception out, whatever the response is (error status,
\* transport error, malformed body, body without the expected fields), and no failing call
\* aborts generate_batch_async
C25_FailingCallNeverAborts ==
    /\ \A i \in 1..Len(tasks) : \A j \in 1..Len(tasks[i].raw_results) :
          tasks[i].raw_results[j].state # "raised"
    /\ bpc # "raised"

\* the chunk a name belongs to
ChunkNo(i) == (i - 1) \div chunk_size

\* the calls of name i that have not finished
Unfinished(i) ==
    {j \in 1..Len(tasks[i].raw_results) : tasks[i].raw_results[j] \in {Waiting, Posted}}

\* C26: names are processed chunk by chunk: when a coroutine of a chunk exists, every
\* coroutine of every earlier chunk has returned and none of its calls is unfinished; so at
\* most chunk_size names and chunk_size * N calls are outstanding at any moment
C26_ChunkByChunk ==
    /\ \A i \in 1..Len(tasks) : \A h \in 1..Len(tasks) :
          (tasks[i].state # "unborn" /\ ChunkNo(h) < ChunkNo(i)) =>
              tasks[h].state = "returned" /\ Unfinished(h) = {}
    /\ Cardinality({i \in 1..Len(tasks) : tasks[i].state = "running" \/ Unfinished(i) # {}})
          <= chunk_size
    /\ Cardinality({ij \in (1..Len(tasks)) \X (1..gconfig.n) :
                       tasks[ij[1]].state # "unborn" /\ ij[2] \in Unfinished(ij[1])})
          <= chunk_size * gconfig.n

\* the third of three names, alone in the second chunk, has a call in flight after the two
\* names of the first chunk returned
C26_Witness ==
    /\ chunk_size = 2 /\ Len(batch_names) = 3 /\ gconfig.n = 2
    /\ tasks[1].state = "returned" /\ tasks[2].state = "returned"
    /\ Len(batch_results) = 2
    /\ tasks[3].state = "running" /\ Posted \in Range(tasks[3].raw_results)

---------------------------------------------------------------------------
(* SpecIds: the pairs of one entity whose names, as the normalizer returns them, may hold *)
(* the NUL character that _make_pair_id separates the fields of its payload with          *)

\* most raw values under "name"
MaxIdNames == 4

\* raw names: "aa<NUL>bb", "bb", "aa", "bb<NUL>bb"
NulTexts == {<<97, 97, 0, 98, 98>>, <<98, 98>>, <<97, 97>>, <<98, 98, 0, 98, 98>>}

InitIds ==
    /\ fn = "_generate_entity_pairs"
    /\ args \in {[name |-> vs] : vs \in SeqsUpTo(NulTexts, MaxIdNames)}
    /\ ret = <<>>
    /\ IdlePairs /\ IdleStream /\ IdleCache /\ IdleRuns /\ IdleIPA /\ IdleRest

\* _clean_names on the properties, then _generate_entity_pairs on the entity "e1" with the
\* names returned, under the default configurations
CallGenerateEntityPairs ==
    /\ fn = "_generate_entity_pairs"
    /\ \E cleaned \in {_clean_names(args, DefaultExtractionConfig, _char_cache)} :
        /\ ret' = _generate_entity_pairs(
                     [entity_id |-> E1, datasets |-> <<"us_ofac_sdn">>, names |-> cleaned.records],
                     DefaultPairConfig)
        /\ _char_cache' = cleaned.cache
    /\ fn' = "returned"
    /\ UNCHANGED <<args, pairVars, streamVars, runVars, ipaVars, restVars>>

NextIds == CallGenerateEntityPairs

SpecIds == InitIds /\ [][NextIds]_vars

\* C28: two pairs emitted for one entity with different (name_a, name_b) have different hash
\* payloads, and so different pair_ids, also when name texts hold the NUL character
C28_PairIdsIdentifyPairs ==
    fn = "returned" =>
        \A k \in 1..Len(ret) : \A m \in 1..Len(ret) :
            <<ret[k].name_a, ret[k].name_b>> # <<ret[m].name_a, ret[m].name_b>>
                => /\ ret[k].pair_id.sha256 # ret[m].pair_id.sha256
                   /\ ret[k].pair_id # ret[m].pair_id

---------------------------------------------------------------------------
(* SpecPerm: _generate_entity_pairs applied to an entity and to the same entity with its *)
(* names permuted                                                                         *)

\* an entity of SpecPerm has at most this many names
MaxPermNames == 3

\* the names sequences with pairwise distinct texts
DistinctNames ==
    {ns \in SeqsUpTo(NamePool, MaxPermNames) :
        \A i \in 1..Len(ns) : \A j \in 1..Len(ns) : i # j => ns[i].text # ns[j].text}

\* the permutations of 1..n
PermutationsOf(n) == {p \in [1..n -> 1..n] : Range(p) = 1..n}

\* the entity with its names in the order p
Permuted(ent, p) == [ent EXCEPT !.names = [k \in 1..Len(p) |-> ent.names[p[k]]]]

InitPerm ==
    /\ fn = "_generate_entity_pairs" /\ ret = <<>>
    /\ entity \in {[entity_id |-> E1, datasets |-> <<"us_ofac_sdn">>, names |-> ns] :
                      ns \in DistinctNames}
    /\ args \in PermutationsOf(Len(entity.names))
    /\ config \in [per_entity_cap : {2, DefaultCap}, rng_seed : {DefaultSeed},
                    include_categories : IncludeSets]
    /\ by_category = [tier \in Range(Tiers) |-> <<>>]
    /\ budget = 0 /\ selected = <<>> /\ rng = 0 /\ pc = "idle"
    /\ IdleStream /\ IdleCache /\ IdleRuns /\ IdleIPA /\ IdleRest

\* _generate_entity_pairs on the entity and on the entity with its names permuted
CallOnPermuted ==
    /\ fn = "_generate_entity_pairs"
    /\ ret' = <<_generate_entity_pairs(entity, config),
                _generate_entity_pairs(Permuted(entity, args), config)>>
    /\ fn' = "returned"
    /\ UNCHANGED <<args, pairVars, streamVars, _char_cache, runVars, ipaVars, restVars>>

NextPerm == CallOnPermuted

SpecPerm == InitPerm /\ [][NextPerm]_vars

\* C29: when the cap truncates nothing (it is at least the number of name pairs of an
\* included category) and the names have pairwise distinct texts, the set of pairs emitted
\* for an entity, each with its pair_id, names, scripts, properties and category, is the same
\* for every permutation of the entity's names
C29_PermutationInvariant ==
    (/\ fn = "returned"
     /\ TotalClassified <= config.per_entity_cap
     /\ \A i \in 1..Len(entity.names) : \A j \in 1..Len(entity.names) :
           i # j => entity.names[i].text # entity.names[j].text)
    => /\ Range(ret[1]) = Range(ret[2])
       /\ Len(ret[1]) = Len(ret[2])

\* three names, given in reverse order to the second call, gave three pairs in both calls,
\* among them a cross_script and a latin_latin pair, in different orders
C29_Witness ==
    /\ fn = "returned"
    /\ Len(entity.names) = 3 /\ args = <<3, 2, 1>>
    /\ Len(ret[1]) = 3 /\ ret[1] # ret[2]
    /\ \E k \in 1..3 : ret[1][k].pair_category = "cross_script"
    /\ \E k \in 1..3 : ret[1][k].pair_category = "latin_latin"

=============================================================================
